---- MODULE Spec2Model ----
(***************************************************************************)
(* Main-process orchestration of the Verify application: the TokenManager  *)
(* (src/main/tokenManager.ts), the OAuth loopback flow and the session IPC *)
(* handlers (main/index.ts) and the ListeningAgent (main/geminiService.ts).*)
(*                                                                         *)
(* The main process is a single-threaded event loop.  One action is one    *)
(* run-to-completion step: an IPC handler up to its first real suspension  *)
(* (a network fetch), a timer callback, a socket event, or the             *)
(* continuation of a handler when its fetch completes.  An await of an     *)
(* already settled promise resumes in the same step (microtask).           *)
(***************************************************************************)
EXTENDS Integers, Sequences, FiniteSets, TLC

----------------------------------------------------------------------------
\* Bounds of the model
MaxNow == 7200000          \* the clock stops advancing past this instant (ms)
MaxRefreshCalls == 2       \* token-endpoint refresh requests issued in a run
MaxStores == 2             \* storeTokens calls in a run
MaxAgents == 2             \* ListeningAgent objects constructed in a run
MaxListeners == 2          \* OAuth callback listeners created in a run
MaxRequests == 2           \* callback requests received per listener
MaxClaims == 2             \* claim_detected events in a run
MaxCards == 2              \* claim cards created in a run
MaxVerifies == 1           \* verifyClaimWithSearch calls of the renderer in a run
MaxLives == 2              \* connectToLiveSession calls in a run
MaxInbox == 3              \* messages to the renderer awaiting dispatch
MaxOutbox == 1             \* messages to the main process awaiting dispatch
MaxKeys == 3               \* keys in the static key pool
MaxPoolCalls == 2          \* key-pool verifications in a run
MaxAudio == 2              \* audio chunks submitted in a run

\* Program constants
REFRESH_BUFFER_MS == 5 * 60 * 1000

NULL == 0

\* Inputs drawn by the environment
TickSteps == {3300000, 3600000}          \* clock advances (ms)
ExpiresIn == {300, 3600}                 \* expires_in of a token response (s)
FailStatus == {0, 400, 401, 403, 500}    \* 0 stands for a network error (fetch throws)

----------------------------------------------------------------------------
VARIABLES
  now,            \* Date.now()
  tm,             \* the TokenManager singleton and its outstanding timers / fetches
  oauth,          \* startOAuthFlow's module state: oauthServer, PKCE values, listeners
  sess,           \* listeningAgent reference and every ListeningAgent constructed
  mainWindow,     \* the main window exists (mainWindow is not null)
  ui,             \* the renderer: AppContent's state, its geminiService, IPC queues
  pool,           \* the key-pool geminiService: API_KEYS, currentKeyIndex, its calls
  last            \* what the step that led to this state did (observation only)

vars == <<now, tm, oauth, sess, mainWindow, ui, pool, last>>

----------------------------------------------------------------------------
\* TokenManager

NoTimer == [pair |-> 0, deadline |-> 0]

Caller(kind, ref) == [kind |-> kind, ref |-> ref]

\* TokenManager state after the constructor when no credential file exists
TokenManagerNew ==
  [accessToken |-> NULL, refreshToken |-> NULL, expiresAt |-> NULL,
   refreshTimer |-> NoTimer,       \* this.refreshTimer
   armed |-> {},                   \* timers pending in the event loop
   file |-> NULL,                  \* content of secure_tokens.enc, NULL when absent
   encryption |-> TRUE,            \* safeStorage.isEncryptionAvailable()
   inflight |-> {},                \* refresh fetches awaiting their response
   refreshSeq |-> 0,               \* refresh fetches issued so far
   storeSeq |-> 0]                 \* storeTokens calls so far

isExpiringSoon(t) ==
  IF t.expiresAt = NULL THEN TRUE
  ELSE now > t.expiresAt - REFRESH_BUFFER_MS

\* refreshAccessToken up to its fetch: [t: state, pending: a fetch was issued].
\* When pending is FALSE the call has returned null.
refreshAccessToken(t, caller) ==
  IF t.refreshToken = NULL
  THEN [t |-> t, pending |-> FALSE]
  ELSE [t |-> [t EXCEPT !.refreshSeq = @ + 1,
                        !.inflight = @ \cup {[id |-> t.refreshSeq + 1,
                                              rt |-> t.refreshToken,
                                              caller |-> caller]}],
        pending |-> TRUE]

\* Mutant: scheduleRefresh forgets to cancel the timer it replaces
clearTimerKeepArmed(t) ==
  [t EXCEPT !.refreshTimer = NoTimer]

\* if (this.refreshTimer) { clearTimeout(this.refreshTimer); this.refreshTimer = null }
clearTimer(t) ==
  IF t.refreshTimer # NoTimer
  THEN [t EXCEPT !.armed = @ \ {t.refreshTimer}, !.refreshTimer = NoTimer]
  ELSE t

scheduleRefresh(t) ==
  LET c == clearTimer(t)
      timeUntilRefresh == c.expiresAt - now - REFRESH_BUFFER_MS
  IN IF c.expiresAt = NULL \/ c.refreshToken = NULL THEN c
     ELSE IF timeUntilRefresh <= 0
          THEN refreshAccessToken(c, Caller("immediate", c.storeSeq)).t
          ELSE LET tmr == [pair |-> c.storeSeq, deadline |-> now + timeUntilRefresh]
               IN [c EXCEPT !.refreshTimer = tmr, !.armed = @ \cup {tmr}]

\* saveRefreshToken: written only if (safeStorage.isEncryptionAvailable())
saveRefreshToken(t, token) == IF t.encryption THEN [t EXCEPT !.file = token] ELSE t

\* Mutant: the refresh token is taken from the response even when it has none
storeTokensOverwrite(t, tokenData) ==
  scheduleRefresh([t EXCEPT !.accessToken = tokenData.access_token,
                            !.expiresAt = now + tokenData.expires_in * 1000,
                            !.storeSeq = @ + 1,
                            !.refreshToken = tokenData.refresh_token])

\* storeTokens
storeTokens(t, tokenData) ==
  LET a == [t EXCEPT !.accessToken = tokenData.access_token,
                     !.expiresAt = now + tokenData.expires_in * 1000,
                     !.storeSeq = @ + 1]
      b == IF tokenData.refresh_token # NULL
           THEN saveRefreshToken([a EXCEPT !.refreshToken = tokenData.refresh_token],
                                 tokenData.refresh_token)
           ELSE a
  IN scheduleRefresh(b)

\* Mutant: the refresh timer is left armed
clearTokensKeepTimer(t) ==
  [t EXCEPT !.accessToken = NULL, !.refreshToken = NULL, !.expiresAt = NULL, !.file = NULL]

\* clearTokens: fields to null, clearTimeout, unlinkSync of the credential file
clearTokens(t) ==
  LET a == [t EXCEPT !.accessToken = NULL, !.refreshToken = NULL, !.expiresAt = NULL]
      b == clearTimer(a)
  IN [b EXCEPT !.file = NULL]

\* getValidToken up to its first suspension:
\* [t, pending, token]; when pending the caller resumes with the refresh result.
getValidToken(t, caller) ==
  IF t.accessToken = NULL /\ t.refreshToken = NULL
  THEN [t |-> t, pending |-> FALSE, token |-> NULL, refreshes |-> 0]
  ELSE IF isExpiringSoon(t)
       THEN LET r == refreshAccessToken(t, caller)
            IN [t |-> r.t, pending |-> r.pending, token |-> NULL, refreshes |-> 1]
       ELSE [t |-> t, pending |-> FALSE, token |-> t.accessToken, refreshes |-> 0]

\* Mutant: every failed refresh clears the tokens, not only 400/401
refreshSettledClearAll(t, resp) ==
  IF resp.status = 200 THEN storeTokens(t, resp.tokenData)
  ELSE clearTokens(t)

\* The part of refreshAccessToken after its fetch has settled.
\* resp.status: 200, another HTTP status, or 0 when fetch threw.
refreshSettled(t, resp) ==
  IF resp.status = 200 THEN storeTokens(t, resp.tokenData)
  ELSE IF resp.status = 400 \/ resp.status = 401 THEN clearTokens(t)
  ELSE t

refreshResult(t, resp) ==
  IF resp.status = 200 THEN refreshSettled(t, resp).accessToken ELSE NULL


\* Token endpoint responses.  The server issues a new access token with every
\* successful response and may or may not send a refresh token along.
NoTokenData == [access_token |-> NULL, refresh_token |-> NULL, expires_in |-> 0]

IssuedAccess(t) == 100 + t.storeSeq + 1
IssuedRefresh(t) == 50 + t.storeSeq + 1

TokenResponses(t) ==
  {[access_token |-> IssuedAccess(t), refresh_token |-> r, expires_in |-> e] :
     r \in {NULL, IssuedRefresh(t)}, e \in ExpiresIn}

RefreshResponses(t) ==
  {[status |-> s, tokenData |-> NoTokenData] : s \in FailStatus}
    \cup {[status |-> 200, tokenData |-> d] : d \in TokenResponses(t)}

Fits(t) == t.refreshSeq <= MaxRefreshCalls /\ t.storeSeq <= MaxStores

----------------------------------------------------------------------------
\* OAuth loopback flow (main/index.ts)

\* createHash('sha256').update(verifier).digest('base64url'), as an injective map
generateCodeChallenge(verifier) == (verifier * 7 + 3) % 101

\* randomBytes: every attempt draws values no earlier attempt has drawn
generateCodeVerifier(n) == 10 + n
generateState(n) == 20 + n

OAuthNew ==
  [oauthServer |-> NULL,
   servers |-> <<>>,          \* every listener created: [state, handled]
   codeVerifier |-> NULL, codeChallenge |-> NULL, oauthState |-> NULL,
   exchanges |-> {}]          \* callback handlers awaiting exchangeCodeForToken

\* Mutant: the listener is dropped without being closed
closeServerForget(o) ==
  [o EXCEPT !.oauthServer = NULL]

\* if (oauthServer) { oauthServer.close(); oauthServer = null }
closeServer(o) ==
  IF o.oauthServer # NULL
  THEN [o EXCEPT !.servers[o.oauthServer].state = "closed", !.oauthServer = NULL]
  ELSE o

\* oauthServer?.close()
closeOnly(o) ==
  IF o.oauthServer # NULL
  THEN [o EXCEPT !.servers[o.oauthServer].state = "closed"]
  ELSE o

\* Mutant: the verifier of an earlier attempt is kept when there is one
startOAuthFlowKeepVerifier(o) ==
  LET c == closeServer(o)
      n == Len(c.servers) + 1
      verifier == generateCodeVerifier(n)
  IN [c EXCEPT !.servers = Append(@, [state |-> "open", handled |-> 0]),
               !.oauthServer = n,
               !.codeVerifier = IF @ # NULL THEN @ ELSE verifier,
               !.codeChallenge = generateCodeChallenge(verifier),
               !.oauthState = generateState(n)]

\* startOAuthFlow: listen(0, '127.0.0.1') on an IP literal completes and runs its
\* callback before any other event is dispatched, so one step covers both.
startOAuthFlow(o) ==
  LET c == closeServer(o)
      n == Len(c.servers) + 1
      verifier == generateCodeVerifier(n)
  IN [c EXCEPT !.servers = Append(@, [state |-> "open", handled |-> 0]),
               !.oauthServer = n,
               !.codeVerifier = verifier,
               !.codeChallenge = generateCodeChallenge(verifier),
               !.oauthState = generateState(n)]

\* The page the callback handler answers the browser with after the exchange:
\* the try block ends with 'Login Successful!', its catch with 'Token Exchange
\* Failed'.  exchangeCodeForToken catches its own errors and returns null.
callbackPage(threw) == IF threw THEN "Token Exchange Failed" ELSE "Login Successful!"

\* Mutant: the state comparison is dropped
stateMismatchNever(returnedState, o) == FALSE

\* returnedState !== oauthState
stateMismatch(returnedState, o) == returnedState # o.oauthState

\* The createServer request handler up to its first suspension.
\* Returns [o, outcome]; outcome "exchange" means exchangeCodeForToken was called.
handleCallback(o, l, req) ==
  LET h == [o EXCEPT !.servers[l].handled = @ + 1]
  IN IF req.path # "/" THEN [o |-> h, outcome |-> "notfound"]
     ELSE IF stateMismatch(req.state, h) THEN [o |-> closeOnly(h), outcome |-> "mismatch"]
     ELSE IF req.error THEN [o |-> closeOnly(h), outcome |-> "error"]
     ELSE IF ~req.code THEN [o |-> h, outcome |-> "nocode"]
     ELSE IF h.oauthServer = NULL \/ h.servers[h.oauthServer].state # "open"
          THEN [o |-> h, outcome |-> "abort"]   \* address.port throws
          ELSE [o |-> [h EXCEPT !.exchanges = @ \cup
                         {[server |-> l, req |-> h.servers[l].handled,
                           port |-> h.oauthServer, verifier |-> h.codeVerifier]}],
                outcome |-> "exchange"]

CallbackRequests(o) ==
  [path : {"/", "/favicon.ico"},
   state : {NULL, 99} \cup {generateState(n) : n \in 1..Len(o.servers)},
   error : BOOLEAN, code : BOOLEAN]


----------------------------------------------------------------------------
\* Source resolution: processSources (main/geminiService.ts)

\* A URI string, by the parts the code looks at: whether it has a scheme (new
\* URL(uri) throws without one), whether its host starts with "www.", the rest
\* of the host, the path, and the values of its url= and q= query parameters
\* (<<>> when the parameter is absent), which are URIs themselves.
Uri(scheme, www, host, path, url, q) ==
  [scheme |-> scheme, www |-> www, host |-> host, path |-> path, url |-> url, q |-> q]

\* The empty string
Empty == Uri(FALSE, FALSE, "", "", <<>>, <<>>)

Bbc == Uri(TRUE, FALSE, "bbc.com", "/x", <<>>, <<>>)
Cnn == Uri(TRUE, TRUE, "cnn.com", "/a", <<>>, <<>>)

VertexHost == "vertexaisearch.cloud.google.com"
RedirectPaths ==
  {"/grounding-api-redirect/1", "/grounding-api-redirect/2", "/grounding-api-redirect/3"}

Vertex(n) ==
  Uri(TRUE, FALSE, VertexHost,
      CASE n = 1 -> "/grounding-api-redirect/1"
        [] n = 2 -> "/grounding-api-redirect/2"
        [] OTHER -> "/grounding-api-redirect/3",
      <<>>, <<>>)

\* https://google.com/url?url=..&q=..
Google(url, q) == Uri(TRUE, FALSE, "google.com", "/url", url, q)

\* The URIs of the model
LeafUris == {Bbc, Cnn, Vertex(1), Vertex(2), Vertex(3)}

WrapperUris ==
  { Google(<<>>, <<Bbc>>),                     \* https://google.com/url?q=https://bbc.com/x
    Google(<<Cnn>>, <<Bbc>>),                  \* url= and q= both present
    Google(<<>>, <<>>),                        \* neither parameter
    Google(<<>>, <<Google(<<>>, <<Bbc>>)>>),   \* a wrapper inside a wrapper
    Google(<<>>, <<Vertex(1)>>),               \* a grounding redirect inside a wrapper
    [Google(<<>>, <<Bbc>>) EXCEPT !.scheme = FALSE] }   \* google.com/url?q=.. without scheme

Uris == LeafUris \cup WrapperUris \cup {Empty}

Params(u) == {u.url[i] : i \in 1..Len(u.url)} \cup {u.q[i] : i \in 1..Len(u.q)}

\* uri.includes(needle): the needle occurs in the URI itself or in one of its
\* query parameter values, which are part of the string
RECURSIVE includes(_, _)
includes(u, needle) ==
  \/ needle = "google.com/url" /\ u.host = "google.com" /\ u.path = "/url"
  \/ needle = "vertexaisearch" /\ u.host = VertexHost
  \/ needle = "grounding-api-redirect" /\ u.path \in RedirectPaths
  \/ \E p \in Params(u) : includes(p, needle)

\* uri.includes('vertexaisearch') || uri.includes('grounding-api-redirect')
isInternal(u) == includes(u, "vertexaisearch") \/ includes(u, "grounding-api-redirect")

\* fetch(uri, {method: 'HEAD', redirect: 'follow'}): the first grounding redirect
\* leads to its article, the second cannot be reached, the third answers
\* without redirecting.  ok = FALSE when fetch throws.
headRequest(u) ==
  IF ~u.scheme THEN [ok |-> FALSE, url |-> u]
  ELSE IF u = Vertex(1) THEN [ok |-> TRUE, url |-> Bbc]
  ELSE IF u = Vertex(2) THEN [ok |-> FALSE, url |-> u]
  ELSE [ok |-> TRUE, url |-> u]

\* new URL(uri).hostname.replace('www.', '')
domainOf(u) == u.host

\* Titles: "" stands for a missing title
Titles == {"", "Quelle", "BBC News", "google.com"}

\* source.title.includes('google.com')
titleIncludesGoogle(title) == title \in {"google.com", VertexHost}

\* A raw source: groundingChunks carry uri, sources of the JSON answer carry url
Source(title, uri, url) == [title |-> title, uri |-> uri, url |-> url]

\* Mutant: the final check for internal links is dropped
dropInternalNever(u) == FALSE

\* 3. Final Check: if (uri.includes('vertexaisearch') || ...) return null
dropInternal(u) == isInternal(u)

\* Mutant: q= is preferred to url=
extractedQFirst(u) ==
  IF u.q # <<>> THEN u.q[1] ELSE IF u.url # <<>> THEN u.url[1] ELSE u

\* urlObj.searchParams.get('url') || urlObj.searchParams.get('q'); if (extracted) uri = extracted
extracted(u) ==
  IF u.url # <<>> THEN u.url[1] ELSE IF u.q # <<>> THEN u.q[1] ELSE u

\* Mutant: a source whose resolution failed is dropped
survivesUnlessFailed(uri, failed) == ~failed /\ ~dropInternal(uri)

\* After a failed resolution the catch block only logs: whether the callback
\* returns the source is decided by the final check alone
survives(uri, failed) == ~dropInternal(uri)

\* The callback of rawSources.slice(0, 5).map in processSources.
\* kept = FALSE when it returns null; heads counts the HEAD requests made;
\* failed tells that new URL or fetch threw inside the resolution try block.
resolveSource(source) ==
  LET uri0 == IF source.uri # Empty THEN source.uri ELSE source.url
      title0 == IF source.title # "" THEN source.title ELSE "Quelle"
      isRedirect == includes(uri0, "google.com/url") \/ isInternal(uri0)
      tried == isRedirect /\ uri0 # Empty
      \* A: new URL(uri).searchParams.get('url') || .get('q')
      parseThrew == tried /\ includes(uri0, "google.com/url") /\ ~uri0.scheme
      uriA == IF tried /\ includes(uri0, "google.com/url") /\ uri0.scheme
              THEN extracted(uri0)
              ELSE uri0
      \* B: HEAD request
      heads == IF tried /\ ~parseThrew /\ isInternal(uriA) THEN 1 ELSE 0
      response == headRequest(uriA)
      uri == IF heads = 1 /\ response.ok THEN response.url ELSE uriA
      \* 2. the title becomes the domain when it is missing or generic
      title == IF uri.scheme
                  /\ (source.title = "" \/ titleIncludesGoogle(source.title)
                        \/ title0 = "Quelle")
               THEN domainOf(uri) ELSE title0
      failed == parseThrew \/ (heads = 1 /\ ~response.ok)
  IN [kept |-> survives(uri, failed), title |-> title, uri |-> uri, heads |-> heads,
      failed |-> failed]

\* rawSources.slice(0, 5)
Slice5(s) == SubSeq(s, 1, IF Len(s) < 5 THEN Len(s) ELSE 5)

RECURSIVE keepResolved(_)
\* cleanSources.filter(s => s !== null), as { title, uri } objects
keepResolved(rs) ==
  IF rs = <<>> THEN <<>>
  ELSE IF Head(rs).kept
       THEN <<[title |-> Head(rs).title, uri |-> Head(rs).uri]>> \o keepResolved(Tail(rs))
       ELSE keepResolved(Tail(rs))

\* What each callback of the map returned, in input order
resolveAll(rawSources) ==
  LET s == Slice5(rawSources) IN [i \in 1..Len(s) |-> resolveSource(s[i])]

processSources(rawSources) == keepResolved(resolveAll(rawSources))

\* A resolved source handed to processSources again
AsRaw(out) == [i \in 1..Len(out) |-> Source(out[i].title, out[i].uri, Empty)]

----------------------------------------------------------------------------
\* Model answers and runFactCheck (main/geminiService.ts)

\* A score field that is absent (undefined)
UNDEFINED == -1

\* The JSON part of an answer text: the text has no {...} span ("none"), the
\* span does not parse ("invalid"), or it parses to an object whose verdict
\* ("" when absent), score and sources are given.
Json(kind, verdict, score, sources) ==
  [kind |-> kind, verdict |-> verdict, score |-> score, sources |-> sources]

NoJson == Json("none", "", UNDEFINED, <<>>)
BadJson == Json("invalid", "", UNDEFINED, <<>>)
Obj(verdict, score, sources) == Json("object", verdict, score, sources)

\* An answer text: what follows "VERDICT:" ("" when the line is missing or
\* names no verdict word in any letter case), the digit that follows "SCORE:"
\* (UNDEFINED when there is none), whether an "EXPLANATION:" line is present,
\* and the JSON part.
Text(verdict, score, expl, json) ==
  [verdict |-> verdict, score |-> score, expl |-> expl, json |-> json]

NoText == Text("", UNDEFINED, FALSE, NoJson)

\* Sources the model may list in its JSON answer
ListedSources ==
  <<Source("BBC News", Empty, Bbc), Source("", Empty, Google(<<>>, <<Bbc>>))>>

JsonTexts ==
  { NoText,                                                    \* prose only, or no text
    Text("", UNDEFINED, FALSE, BadJson),                       \* {"verdict": "True",
    Text("", UNDEFINED, FALSE, Obj("", UNDEFINED, <<>>)),      \* {}
    Text("", UNDEFINED, FALSE, Obj("Mixed", 3, <<>>)),
    Text("", UNDEFINED, FALSE, Obj("True", 5, ListedSources)),
    Text("", UNDEFINED, FALSE, Obj("true", 7, <<>>)) }         \* lower case, out of range

LineTexts ==
  { Text("True", 4, TRUE, NoJson),
    Text("Unverified", 0, TRUE, NoJson),
    Text("true", 3, TRUE, NoJson),                             \* VERDICT: true
    Text("False", 9, TRUE, NoJson),                            \* SCORE: 9
    Text("Mixed", 2, FALSE, NoJson) }                          \* no EXPLANATION line

Texts == JsonTexts \cup LineTexts

\* text.match(/\{[\s\S]*\}/) followed by JSON.parse.  threw = TRUE when
\* JSON.parse throws; a text without a {...} span is parsed as '{}'.
parseJson(text) ==
  IF text.json.kind = "invalid"
  THEN [threw |-> TRUE, verdict |-> "", score |-> UNDEFINED, sources |-> <<>>]
  ELSE [threw |-> FALSE, verdict |-> text.json.verdict, score |-> text.json.score,
        sources |-> text.json.sources]

\* Grounding chunks of an answer: the web entry of each chunk
GroundingLists ==
  { <<Source(t, u, Empty)>> : t \in Titles, u \in Uris } \cup
  { <<>>,
    <<Source("bbc.com", Vertex(1), Empty)>>,
    <<Source("bbc.com", Vertex(1), Empty), Source("bbc.com", Vertex(1), Empty)>>,
    <<Source("", Vertex(2), Empty), Source("cnn.com", Cnn, Empty)>>,
    <<Source("", [Google(<<>>, <<Bbc>>) EXCEPT !.scheme = FALSE], Empty),
      Source("", Google(<<>>, <<Bbc>>), Empty)>>,
    [i \in 1..6 |-> Source("", IF i = 6 THEN Cnn ELSE Bbc, Empty)] }

\* What the generateContent endpoint does with a request: fetch throws
\* ("throw"), a non-2xx status ("http"), a 2xx body that is not JSON
\* ("badbody"), or an answer.
Answer(net, text, grounding) == [net |-> net, text |-> text, grounding |-> grounding]

Failures == {Answer(n, NoText, <<>>) : n \in {"throw", "http", "badbody"}}

RestAnswers ==
  Failures \cup {Answer("ok", t, g) : t \in JsonTexts, g \in GroundingLists}

\* groundingChunks.map(chunk => chunk.web).filter(web => !!web && !!web.uri)
RECURSIVE withUri(_)
withUri(chunks) ==
  IF chunks = <<>> THEN <<>>
  ELSE IF Head(chunks).uri # Empty THEN <<Head(chunks)>> \o withUri(Tail(chunks))
       ELSE withUri(Tail(chunks))

Result(verdict, score, sources) ==
  [verdict |-> verdict, score |-> score, sources |-> sources]

\* The object runFactCheck reads the answer text as: the parsed JSON, or its
\* catch block's replacement when JSON.parse throws
parsedResult(text) ==
  LET parsed == parseJson(text)
  IN IF parsed.threw
     THEN [verdict |-> "Unverified", score |-> 0, sources |-> <<>>]
     ELSE [verdict |-> parsed.verdict, score |-> parsed.score, sources |-> parsed.sources]

\* candidates: result.sources when it is a non-empty array, else the grounding chunks
factCheckCandidates(answer) ==
  IF answer.net # "ok" THEN <<>>
  ELSE IF parsedResult(answer.text).sources # <<>> THEN parsedResult(answer.text).sources
  ELSE withUri(answer.grounding)

\* runFactCheck, given what the endpoint answers.  Its awaits touch no state
\* of the main process, so it is evaluated in one piece when it settles.
\* threw = TRUE when the returned promise rejects.
runFactCheck(answer) ==
  IF answer.net # "ok"
  THEN [threw |-> TRUE, result |-> Result("", UNDEFINED, <<>>)]
  ELSE LET result == parsedResult(answer.text)
           limitedSources == processSources(factCheckCandidates(answer))
       IN [threw |-> FALSE,
           result |-> Result(IF result.verdict # "" THEN result.verdict ELSE "Unverified",
                             IF result.score \notin {UNDEFINED, 0} THEN result.score ELSE 0,
                             limitedSources)]

----------------------------------------------------------------------------
\* Messages between the main process and the renderer

NoResult == Result("", UNDEFINED, <<>>)

\* A message on an IPC channel.  claim numbers the detection the message is
\* about (a label of the model; the program sends the title only).
IpcMsg(channel, type) ==
  [channel |-> channel, type |-> type, title |-> "", text |-> FALSE, claim |-> 0,
   error |-> FALSE, result |-> NoResult,
   token |-> NULL,            \* credential value the payload contains, NULL when none
   code |-> 0]                \* close code and reason of a closed event, 0 when none

\* args.claim_title || 'Claim'
titleOrDefault(title) == IF title # "" THEN title ELSE "Claim"

----------------------------------------------------------------------------
\* ListeningAgent (main/geminiService.ts) and the session handlers (main/index.ts)

SessNew ==
  [listeningAgent |-> NULL,
   agents |-> <<>>,           \* every ListeningAgent constructed
   claimSeq |-> 0,            \* claim_detected events emitted so far
   titles |-> <<>>,           \* claimTitle of each claim_detected event
   factChecks |-> {},         \* runFactCheck calls awaiting their response
   audioSeq |-> 0,            \* audio-chunk messages received so far
   audioSent |-> {},          \* the chunks transmitted as realtime_input frames
   stopped |-> {}]            \* start-session token requests in flight when a
                              \* stop-session was handled (observation only)

\* new ListeningAgent(accessToken) followed by connect()
NewAgent(token) ==
  [accessToken |-> token,
   ws |-> "connecting",       \* readyState of the socket connect() created
   hasWs |-> TRUE,            \* this.ws is not null
   setupSent |-> FALSE,       \* the setup frame was transmitted
   gotSetupComplete |-> FALSE,\* the server's setupComplete frame was received
   setupEvents |-> 0]         \* 'setup_complete' events emitted

Live(a) == a.ws \in {"connecting", "open"}

\* Mutant: the chunk is written to any socket the agent holds
sendAudioAnyState(a) == a.hasWs

\* ListeningAgent.sendAudio: TRUE when the realtime_input frame is transmitted
sendAudio(a) == a.hasWs /\ a.ws = "open"

\* this.ws?.readyState as sendAudio finds it
readyState(s) ==
  IF s.listeningAgent = NULL THEN "none"
  ELSE IF ~s.agents[s.listeningAgent].hasWs THEN "none"
       ELSE s.agents[s.listeningAgent].ws

\* Mutant: the socket is closed but the reference to it is kept
disconnectKeepWs(a) ==
  IF a.hasWs THEN [a EXCEPT !.ws = IF Live(a) THEN "closing" ELSE @] ELSE a

\* ListeningAgent.disconnect
disconnect(a) ==
  IF a.hasWs
  THEN [a EXCEPT !.ws = IF Live(a) THEN "closing" ELSE @, !.hasWs = FALSE]
  ELSE a

\* if (listeningAgent) { listeningAgent.disconnect(); listeningAgent = null }
disconnectCurrent(s) ==
  IF s.listeningAgent # NULL
  THEN [s EXCEPT !.agents[s.listeningAgent] = disconnect(@), !.listeningAgent = NULL]
  ELSE s

\* Mutant: the agents that exist are given the token of the new one
startSessionResumeRekey(s, token, win) ==
  IF token = NULL \/ ~win THEN s
  ELSE [s EXCEPT !.agents = Append([a \in 1..Len(@) |-> [@[a] EXCEPT !.accessToken = token]],
                                   NewAgent(token)),
                 !.listeningAgent = Len(s.agents) + 1]

\* start-session after `await tokenManager.getValidToken()`
startSessionResume(s, token, win) ==
  IF token = NULL \/ ~win THEN s
  ELSE [s EXCEPT !.agents = Append(@, NewAgent(token)),
                 !.listeningAgent = Len(s.agents) + 1]

NoGet == [case |-> 0, token |-> NULL, refreshes |-> 0, inside |-> FALSE]

\* What a getValidToken call that returned without suspending reports
GetOutcome(t, g) ==
  IF t.accessToken = NULL /\ t.refreshToken = NULL
  THEN [case |-> 1, token |-> NULL, refreshes |-> 0, inside |-> FALSE]
  ELSE IF isExpiringSoon(t)
       THEN [case |-> 2, token |-> g.token, refreshes |-> g.refreshes, inside |-> FALSE]
       ELSE [case |-> 3, token |-> g.token, refreshes |-> g.refreshes,
             inside |-> t.expiresAt - now < REFRESH_BUFFER_MS]

\* Function calls of a toolCall frame
\* title is args.claim_title ("" when absent), text tells whether args.claim_text is set
Call(name, id, title, text) == [name |-> name, id |-> id, title |-> title, text |-> text]

ToolCalls ==
  { <<>>,
    <<Call("detect_claim", 1, "A", TRUE)>>,
    <<Call("detect_claim", 1, "A", TRUE), Call("detect_claim", 2, "A", FALSE)>>,
    <<Call("other", 1, "A", TRUE), Call("detect_claim", 2, "A", TRUE)>>,
    <<Call("detect_claim", 2, "A", TRUE), Call("other", 3, "A", TRUE),
      Call("detect_claim", 1, "A", TRUE)>> }

\* Mutant: the acknowledgement is sent whatever the call's name is
isDetectClaimAny(call) == TRUE

\* call.name === 'detect_claim'
isDetectClaim(call) == call.name = "detect_claim"

\* this.ws?.readyState === WebSocket.OPEN
canSend(a) == a.hasWs /\ a.ws = "open"

\* The 'claim_detected' observer registered by start-session, up to its suspension.
\* w: [tm, sess, acks, events, get, sent]; sent are the messages to the renderer
onClaimDetected(w, call) ==
  LET n == w.sess.claimSeq + 1
      claimTitle == titleOrDefault(call.title)
      s1 == [w.sess EXCEPT !.claimSeq = n, !.titles = Append(@, claimTitle)]
  IN IF ~call.text THEN [w EXCEPT !.sess = s1]
     ELSE LET g == getValidToken(w.tm, Caller("factcheck", n))
          IN [w EXCEPT
                !.tm = g.t,
                !.sess = IF ~g.pending /\ g.token # NULL
                         THEN [s1 EXCEPT !.factChecks = @ \cup
                                 {[claim |-> n, title |-> claimTitle, token |-> g.token]}]
                         ELSE s1,
                !.get = IF g.pending THEN @ ELSE GetOutcome(w.tm, g),
                !.sent = Append(@, [IpcMsg("fact-check-status", "verifying") EXCEPT
                                      !.title = claimTitle, !.claim = n])]

\* One iteration of calls.forEach in handleServerMessage, for agent number a
handleCall(w, a, call) ==
  IF isDetectClaim(call)
  THEN LET e == onClaimDetected([w EXCEPT !.events = Append(@, call.id)], call)
           n == [e EXCEPT !.sent = Append(@, [IpcMsg("gemini-data", "tool_call") EXCEPT
                                                !.title = call.title, !.text = call.text,
                                                !.claim = e.sess.claimSeq])]
       IN IF canSend(n.sess.agents[a])
          THEN [n EXCEPT !.acks = Append(@, call.id)]
          ELSE n
  ELSE w

RECURSIVE handleCalls(_, _, _)
handleCalls(w, a, calls) ==
  IF calls = <<>> THEN w
  ELSE handleCalls(handleCall(w, a, Head(calls)), a, Tail(calls))


\* sendSetupMessage: this.ws?.send(setup frame); this.emit('setup_complete')
sendSetupMessage(a) ==
  [a EXCEPT !.setupSent = @ \/ a.hasWs, !.setupEvents = @ + 1]

\* Frames the server may send on a connection whose setup frame it has received
ServerFrames ==
  {[kind |-> "setupComplete", calls |-> <<>>], [kind |-> "serverContent", calls |-> <<>>]}
    \cup {[kind |-> "toolCall", calls |-> cs] : cs \in ToolCalls}

\* handleServerMessage applied to the world w for agent number a
handleServerMessage(w, a, msg) ==
  IF msg.kind = "setupComplete"
  THEN [w EXCEPT !.sess.agents[a].gotSetupComplete = TRUE]
  ELSE IF msg.kind = "toolCall" THEN handleCalls(w, a, msg.calls)
  ELSE [w EXCEPT !.sent = @ \o <<IpcMsg("gemini-data", "server_content"),
                                  IpcMsg("gemini-data", "server_content")>>]

----------------------------------------------------------------------------
\* Renderer: AppContent (renderer/src/App.tsx) and the renderer's
\* geminiService (renderer/src/services/geminiService.ts).  Of the cards only
\* the claim cards are kept; informational cards carry no state the claims use.

MAX_CARDS == 100
maxRetries == 3

\* The renderer before React has mounted AppContent
UiNew ==
  [mounted |-> FALSE,         \* AppContent is mounted and its effects have run
   authMode |-> "none",       \* authMode: "none" stands for null
   hasOAuthLogin |-> FALSE,
   hasApiKey |-> FALSE,       \* storedApiKey is not null
   ai |-> FALSE,              \* geminiService: the client `ai` is not null
   isListening |-> FALSE,
   liveSessionRef |-> NULL,   \* liveSessionRef.current, an index into lives
   lives |-> <<>>,            \* connection state of every connectToLiveSession call
   cards |-> <<>>,
   cardSeq |-> 0,             \* cards created so far (crypto.randomUUID)
   verifies |-> {},           \* verifyClaimWithSearch calls awaiting an answer
   verifySeq |-> 0,           \* verifyClaimWithSearch calls so far
   inbox |-> <<>>,            \* messages from the main process not yet dispatched
   crossed |-> {},            \* credential values contained in messages handed to webContents.send
   toMain |-> <<>>]           \* messages to the main process not yet dispatched

Exposed == {"auth-status", "gemini-data", "fact-check-result"}

\* mainWindow.webContents.send: a renderer that has not mounted has no listener,
\* and a channel the preload script does not expose never has one
heard(m) == m.channel \in Exposed

send(u, win, msgs) ==
  LET u1 == IF win
            THEN [u EXCEPT !.crossed = @ \cup ({msgs[i].token : i \in 1..Len(msgs)} \ {NULL})]
            ELSE u
  IN IF win /\ u.mounted THEN [u1 EXCEPT !.inbox = @ \o SelectSeq(msgs, heard)] ELSE u1

\* ipcRenderer.send
sendToMain(u, channel) == [u EXCEPT !.toMain = Append(@, channel)]

Card(id, title, claim) ==
  [id |-> id, title |-> title, isVerifying |-> TRUE, verdict |-> "Pending",
   sources |-> <<>>,
   claim |-> claim,           \* the detection the card was created for
   by |-> 0,                  \* the detection whose verification wrote the card
   writes |-> 0]              \* how often a result was written to the card

\* newCards.slice(-MAX_CARDS)
LastCards(cs) ==
  IF Len(cs) > MAX_CARDS THEN SubSeq(cs, Len(cs) - MAX_CARDS + 1, Len(cs)) ELSE cs

\* setCards in handleClaimDetected
addClaimCard(u, title, claim) ==
  [u EXCEPT !.cardSeq = @ + 1,
            !.cards = LastCards(Append(@, Card(u.cardSeq + 1, title, claim)))]

writeCard(card, verdict, sources, by) ==
  [card EXCEPT !.isVerifying = FALSE, !.verdict = verdict, !.sources = sources,
               !.by = by, !.writes = @ + 1]

\* updateCard(cardId, {content, verdict, isVerifying: false, sources})
updateCard(u, id, verdict, sources, by) ==
  [u EXCEPT !.cards = [i \in 1..Len(u.cards) |->
                          IF u.cards[i].id = id
                          THEN writeCard(u.cards[i], verdict, sources, by)
                          ELSE u.cards[i]]]

\* The onFactCheckResult listener: every verifying card with the title
onFactCheckResult(u, msg) ==
  [u EXCEPT !.cards = [i \in 1..Len(u.cards) |->
                          IF u.cards[i].title = msg.title /\ u.cards[i].isVerifying
                          THEN IF msg.error
                               THEN writeCard(u.cards[i], "Unverified", u.cards[i].sources,
                                              msg.claim)
                               ELSE writeCard(u.cards[i],
                                              IF msg.result.verdict # "" THEN msg.result.verdict
                                              ELSE "Unverified",
                                              msg.result.sources, msg.claim)
                          ELSE u.cards[i]]]

\* parseTextVerificationResult: ok = FALSE when it returns null
parseTextVerificationResult(text) ==
  [ok |-> text.verdict # "" /\ text.score # UNDEFINED /\ text.expl,
   verdict |-> text.verdict, score |-> text.score]

\* extractSources: the web entries whose title and uri are strings
RECURSIVE extractSources(_)
extractSources(chunks) ==
  IF chunks = <<>> THEN <<>>
  ELSE IF Head(chunks).title # "" /\ Head(chunks).uri # Empty
       THEN <<[title |-> Head(chunks).title, uri |-> Head(chunks).uri]>>
              \o extractSources(Tail(chunks))
       ELSE extractSources(Tail(chunks))

\* Mutant: the call ends without a result
DegradedNone == NoResult

\* The result returned after 'All verification attempts failed'
Degraded == Result("Unverified", 0, <<>>)

\* client tells whether a client existed when the call began, primary and
\* fallback count the requests of each tier, failures the requests
\* that threw or whose answer could not be parsed, malformed those of them
\* whose answer was malformed JSON
NoVerify ==
  [call |-> 0, client |-> FALSE, primary |-> 0, fallback |-> 0, failures |-> 0,
   malformed |-> 0, result |-> NoResult]

\* verifyClaimWithSearch returns and handleClaimDetected writes the card.
\* Operators of a verification return [u, report]; report is NoVerify while
\* the call awaits an answer.
verifyReturn(u, v, result) ==
  [u |-> updateCard(u, v.card, result.verdict, result.sources, v.claim),
   report |-> [call |-> v.id, client |-> v.client, primary |-> v.primary, fallback |-> v.fallback,
               failures |-> v.failures, malformed |-> v.malformed, result |-> result]]

\* The fallback loop from iteration v.attempt on.  getClient() throws inside
\* the try block when there is no client, in this and every later iteration.
verifyFallback(u, v) ==
  IF v.attempt < maxRetries /\ u.ai
  THEN [u |-> [u EXCEPT !.verifies = @ \cup {[v EXCEPT !.tier = 2, !.fallback = @ + 1]}],
        report |-> NoVerify]
  ELSE verifyReturn(u, v, Degraded)

\* verifyClaimWithSearch up to its first suspension
verifyClaimWithSearch(u, card, claim) ==
  LET v == [id |-> u.verifySeq + 1, card |-> card, claim |-> claim,
            client |-> u.ai, tier |-> 3, attempt |-> 0, primary |-> 0, fallback |-> 0,
            failures |-> 0, malformed |-> 0]
      u1 == [u EXCEPT !.verifySeq = @ + 1]
  IN IF u1.ai
     THEN [u |-> [u1 EXCEPT !.verifies = @ \cup {[v EXCEPT !.primary = 1]}],
           report |-> NoVerify]
     ELSE verifyFallback(u1, v)

\* verifyClaimWithSearch resumed with the answer to the request of call v
verifySettled(u, v, answer) ==
  IF v.tier = 3
  THEN LET r == parseTextVerificationResult(answer.text)
       IN IF answer.net = "ok" /\ r.ok
          THEN verifyReturn(u, v, Result(r.verdict, r.score, extractSources(answer.grounding)))
          ELSE verifyFallback(u, [v EXCEPT !.failures = @ + 1])
  ELSE LET p == parseJson(answer.text)
       IN IF answer.net = "ok" /\ ~p.threw
          THEN verifyReturn(u, v, Result(p.verdict, p.score, extractSources(answer.grounding)))
          ELSE verifyFallback(u, [v EXCEPT !.attempt = @ + 1, !.failures = @ + 1,
                                           !.malformed = IF answer.net = "ok" THEN @ + 1
                                                         ELSE @])

\* handleClaimDetected; inOAuth is the authMode === 'oauth' of the closure
handleClaimDetected(u, title, claim, inOAuth) ==
  LET u1 == addClaimCard(u, title, claim)
  IN IF inOAuth THEN [u |-> u1, report |-> NoVerify]
     ELSE verifyClaimWithSearch(u1, u1.cardSeq, claim)

\* Claims detected by the renderer's own session are numbered from here
RendererClaim(u) == 100 + u.cardSeq + 1

\* onmessage of the live session: for (const fc of msg.toolCall.functionCalls)
RECURSIVE liveOnMessage(_, _)
liveOnMessage(w, calls) ==
  IF calls = <<>> THEN w
  ELSE IF Head(calls).name = "detect_claim"
       THEN liveOnMessage(
              LET r == handleClaimDetected(w.u, titleOrDefault(Head(calls).title),
                                           RendererClaim(w.u), FALSE)
              IN [u |-> r.u, report |-> IF r.report # NoVerify THEN r.report ELSE w.report],
              Tail(calls))
       ELSE liveOnMessage(w, Tail(calls))

\* liveSessionRef.current.close(); liveSessionRef.current = null
closeLive(u) ==
  IF u.liveSessionRef # NULL
  THEN [u EXCEPT !.lives[u.liveSessionRef] = IF @ \in {"connecting", "open"} THEN "closing" ELSE @,
                 !.liveSessionRef = NULL]
  ELSE u

\* disconnectLiveSession
disconnectLiveSession(u) ==
  IF u.authMode = "oauth" THEN sendToMain(u, "stop-session") ELSE closeLive(u)

\* connectLiveSession, up to the await of connectToLiveSession
connectLiveSession(u) ==
  IF u.liveSessionRef # NULL THEN u
  ELSE IF u.authMode = "oauth" THEN sendToMain(u, "start-session")
  ELSE IF u.ai THEN [u EXCEPT !.lives = Append(@, "connecting")]
  ELSE [closeLive(u) EXCEPT !.isListening = FALSE]   \* getClient() throws: catch block

\* handleListenClick
handleListenClick(u) ==
  IF ~u.isListening
  THEN connectLiveSession([u EXCEPT !.isListening = TRUE])
  ELSE disconnectLiveSession([u EXCEPT !.isListening = FALSE])

\* connectWithApiKey followed by the state updates of handleApiKeySubmit
handleApiKeySubmit(u) ==
  [u EXCEPT !.ai = TRUE, !.hasApiKey = TRUE, !.authMode = "apiKey"]

\* ApiKeyModal onDelete
onDelete(u) ==
  [u EXCEPT !.ai = FALSE, !.hasApiKey = FALSE,
            !.authMode = IF @ = "apiKey"
                         THEN (IF u.hasOAuthLogin THEN "oauth" ELSE "none") ELSE @]

\* Sidebar onLogout
onLogout(u) ==
  [u EXCEPT !.hasOAuthLogin = FALSE,
            !.authMode = IF @ = "oauth"
                         THEN (IF u.hasApiKey THEN "apiKey" ELSE "none") ELSE @]

\* toggleAuthMode
toggleAuthMode(u) ==
  LET u1 == IF u.isListening
            THEN [disconnectLiveSession(u) EXCEPT !.isListening = FALSE] ELSE u
  IN IF u1.authMode = "apiKey" /\ u1.hasOAuthLogin
     THEN [u1 EXCEPT !.authMode = "oauth"]
     ELSE IF u1.authMode = "oauth" /\ u1.hasApiKey
          THEN [u1 EXCEPT !.ai = TRUE, !.authMode = "apiKey"]
          ELSE u1

\* The onAuthStatus listener
onAuthStatus(u, msg) ==
  IF ~msg.error
  THEN [u EXCEPT !.hasOAuthLogin = TRUE,
                 !.authMode = IF msg.type = "oauth" THEN "oauth" ELSE @]
  ELSE [u EXCEPT !.hasOAuthLogin = FALSE,
                 !.authMode = IF @ = "oauth" THEN "none" ELSE @]

\* The listeners of the renderer applied to a message from the main process.
\* onGeminiData and onFactCheckResult are registered in OAuth mode only.
dispatch(u, msg) ==
  IF msg.channel = "auth-status" THEN onAuthStatus(u, msg)
  ELSE IF u.authMode # "oauth" THEN u
  ELSE IF msg.channel = "gemini-data"
       THEN IF msg.type = "tool_call" /\ msg.text
            THEN handleClaimDetected(u, titleOrDefault(msg.title), msg.claim, TRUE).u
            ELSE u
  ELSE IF msg.channel = "fact-check-result" THEN onFactCheckResult(u, msg)
  ELSE u

----------------------------------------------------------------------------
\* Static-key pool of the renderer's geminiService: API_KEYS, currentKeyIndex
\* and the verifyClaimWithSearch that rotates keys

\* The module before its top-level code has run
PoolNew ==
  [loaded |-> FALSE,
   keys |-> 0,                \* API_KEYS.length
   currentKeyIndex |-> 0,
   ai |-> NULL,               \* key number the client `ai` was built with, NULL when ai is null
   calls |-> {},              \* verifyClaimWithSearch calls awaiting an answer
   callSeq |-> 0]             \* verifyClaimWithSearch calls so far

\* Answers to a pooled request: a quota error (429), another error, or a text
PoolAnswers ==
  {Answer(n, NoText, <<>>) : n \in {"quota", "throw"}}
    \cup {Answer("ok", t, <<>>) : t \in JsonTexts}

\* isQuotaError(error)
isQuotaError(answer) == answer.net = "quota"

\* getAI(): the client is built lazily with the current key
getAI(p) ==
  IF p.ai = NULL THEN [p EXCEPT !.ai = p.currentKeyIndex + 1] ELSE p

\* Mutant: rotation stays on the same key
rotateApiKeyStuck(p) ==
  IF p.keys <= 1 THEN [p |-> p, rotated |-> FALSE]
  ELSE [p |-> [p EXCEPT !.ai = p.currentKeyIndex + 1], rotated |-> TRUE]

\* rotateApiKey(): [p, rotated]
rotateApiKey(p) ==
  IF p.keys <= 1 THEN [p |-> p, rotated |-> FALSE]
  ELSE LET i == (p.currentKeyIndex + 1) % p.keys
       IN [p |-> [p EXCEPT !.currentKeyIndex = i, !.ai = i + 1], rotated |-> TRUE]

\* settled and net tell which call's request settled in the step and how; the
\* other fields describe the call that returned in the step (call = 0 when
\* none did): its attempts, the keys it tried, its last error ("none" when the
\* last attempt succeeded), the quota errors it met and what it returned
NoPoolReport ==
  [settled |-> 0, net |-> "none", call |-> 0, attempts |-> 0, tried |-> <<>>,
   threw |-> FALSE, error |-> "none", quota |-> 0, result |-> NoResult]

\* The call returns after its loop
poolReturn(p, c, result) ==
  [p |-> p,
   report |-> [NoPoolReport EXCEPT
                 !.call = c.id, !.attempts = Len(c.tried), !.tried = c.tried,
                 !.error = c.lastError, !.quota = c.quota, !.result = result]]

\* One iteration of `for (attempt < maxRetries)` up to its await, for call c
poolAttempt(p, c) ==
  IF c.attempt < c.maxRetries
  THEN LET p1 == getAI(p)
       IN [p |-> [p1 EXCEPT !.calls = @ \cup {[c EXCEPT !.tried = Append(@, p1.ai)]}],
           report |-> NoPoolReport]
  ELSE poolReturn(p, c, Degraded)

\* verifyClaimWithSearch (key pool) up to its first suspension
poolVerify(p) ==
  poolAttempt([p EXCEPT !.callSeq = @ + 1],
              [id |-> p.callSeq + 1, maxRetries |-> p.keys, attempt |-> 0,
               tried |-> <<>>, lastError |-> "none", quota |-> 0])

\* The call c resumed with the answer to its request
poolSettled(p, c, answer) ==
  LET parsed == parseJson(answer.text)
  IN IF answer.net = "ok" /\ ~parsed.threw
     THEN poolReturn(p, c, Result(parsed.verdict, parsed.score, <<>>))
     ELSE LET c1 == [c EXCEPT !.lastError = IF answer.net = "ok" THEN "parse" ELSE answer.net,
                              !.quota = IF isQuotaError(answer) THEN @ + 1 ELSE @]
              r == rotateApiKey(p)
          IN IF isQuotaError(answer) /\ r.rotated
             THEN poolAttempt(r.p, [c1 EXCEPT !.attempt = @ + 1])
             ELSE poolReturn(p, c1, Degraded)

----------------------------------------------------------------------------
\* Initial state: the module has been loaded and the window created.  The
\* TokenManager constructor found either no credential file, or a file whose
\* refresh token it adopted and for which its refresh request is in flight.

PersistedToken == 50

\* Close codes of the WebSocket protocol: normal closure, abnormal closure (the
\* network dropped) and internal server error
AbnormalClosure == 1006
CloseCodes == {1000, AbnormalClosure, 1011}

\* Content of secure_tokens.enc that decryptString rejects
Corrupt == -1

\* What the constructor finds: the file's content, whether readFileSync can
\* read it, whether safeStorage can encrypt and decrypt
Disk(file, readable, encryption) ==
  [file |-> file, readable |-> readable, encryption |-> encryption]

Disks ==
  {Disk(f, r, e) : f \in {NULL, PersistedToken, Corrupt}, r \in BOOLEAN, e \in BOOLEAN}

\* The try block of loadRefreshToken; outcome "throws" when readFileSync or
\* decryptString raises
loadBody(t, d) ==
  IF t.file = NULL THEN [t |-> t, outcome |-> "absent"]
  ELSE IF ~t.encryption THEN [t |-> t, outcome |-> "skipped"]
  ELSE IF ~d.readable \/ t.file = Corrupt THEN [t |-> t, outcome |-> "throws"]
  ELSE [t |-> refreshAccessToken([t EXCEPT !.refreshToken = t.file], Caller("startup", 0)).t,
        outcome |-> "loaded"]

\* Mutant: loadRefreshToken without its catch block
loadRefreshTokenNoCatch(t, d) == loadBody(t, d)

\* loadRefreshToken: the catch block unlinks the file
loadRefreshToken(t, d) ==
  LET r == loadBody(t, d)
  IN IF r.outcome = "throws"
     THEN [t |-> [r.t EXCEPT !.file = NULL], outcome |-> "caught"]
     ELSE r

\* new TokenManager() on disk d
constructor(d) ==
  loadRefreshToken([TokenManagerNew EXCEPT !.file = d.file, !.encryption = d.encryption], d)

\* TokenManager state after the constructor when the credential file holds a
\* refresh token: it is adopted and its refresh request is in flight
TokenManagerLoaded == constructor(Disk(PersistedToken, TRUE, TRUE)).t

NoStartup == [disk |-> Disk(NULL, TRUE, TRUE), outcome |-> "none"]

NoRefresh == [status |-> -1, kind |-> "none", result |-> NULL]
NoRequest == [server |-> 0, outcome |-> "none", expected |-> NULL, returned |-> NULL]
NoMsg == [agent |-> 0, kind |-> "none", open |-> FALSE, calls |-> <<>>,
          acks |-> <<>>, events |-> <<>>]

NoFact ==
  [claim |-> 0, net |-> "none", threw |-> FALSE, malformed |-> FALSE, candidates |-> <<>>,
   resolved |-> <<>>, result |-> NoResult]

NoExchange ==
  [settled |-> FALSE, succeeded |-> FALSE, stored |-> FALSE, notified |-> FALSE,
   page |-> "none"]

NoClosed == [agent |-> 0, code |-> 0, sent |-> <<>>]

NoAudio == [chunk |-> 0, state |-> "none", transmitted |-> FALSE]

\* Nothing to report: the value of `last` after a step that did none of these
Quiet ==
  [refresh |-> NoRefresh,   \* refreshAccessToken continuation: response status, caller
   get |-> NoGet,           \* getValidToken call that returned
   fired |-> NoTimer,       \* refresh timer whose callback ran
   request |-> NoRequest,   \* callback request handled
   msg |-> NoMsg,           \* server frame handled
   fact |-> NoFact,         \* runFactCheck call that settled
   verify |-> NoVerify,     \* verifyClaimWithSearch call that returned
   pool |-> NoPoolReport,   \* key-pool verification: the request that settled
   delivered |-> IpcMsg("none", "none"),  \* message dispatched in the renderer
   audio |-> NoAudio,       \* audio chunk submitted
   exchange |-> NoExchange, \* exchangeCodeForToken call that settled
   closed |-> NoClosed,     \* 'close' event of a socket
   startup |-> NoStartup]   \* the constructor of the TokenManager that just ran

Init ==
  /\ now = 0
  /\ tm \in {TokenManagerNew, TokenManagerLoaded}
  /\ oauth = OAuthNew
  /\ sess = SessNew
  /\ mainWindow = TRUE
  /\ ui = UiNew
  /\ pool = PoolNew
  /\ last = Quiet

----------------------------------------------------------------------------
\* Actions of the main process.  A handler whose IPC message comes from the
\* renderer takes as parameter u the renderer as the message's removal from
\* its outbound queue leaves it; the handler's own messages are added to u.

\* Time passes
Tick(d) ==
  /\ now + d <= MaxNow
  /\ now' = now + d
  /\ last' = Quiet
  /\ UNCHANGED <<tm, oauth, sess, mainWindow, ui, pool>>

\* The setTimeout callback armed by scheduleRefresh runs
TimerFire(tmr) ==
  /\ tmr \in tm.armed
  /\ now >= tmr.deadline
  /\ LET t == refreshAccessToken([tm EXCEPT !.armed = @ \ {tmr}], Caller("timer", tmr.pair)).t
     IN Fits(t) /\ tm' = t
  /\ last' = [Quiet EXCEPT !.fired = tmr]
  /\ UNCHANGED <<now, oauth, sess, mainWindow, ui, pool>>

\* Mutant: the notification carries the refreshed access token
notifyTokenRefreshedWithToken(t) ==
  IF t.accessToken # NULL
  THEN <<[IpcMsg("auth-status", "refresh") EXCEPT !.token = t.accessToken]>> ELSE <<>>

\* notifyTokenRefreshed: { success: true, type: 'refresh' }
notifyTokenRefreshed(t) ==
  IF t.accessToken # NULL THEN <<IpcMsg("auth-status", "refresh")>> ELSE <<>>

\* auth-status messages of refreshAccessToken's continuation: clearTokens
\* reports the logout, notifyTokenRefreshed the refresh
refreshMessages(t1, resp) ==
  IF resp.status = 200
  THEN notifyTokenRefreshed(t1)
  ELSE IF resp.status = 400 \/ resp.status = 401
       THEN <<[IpcMsg("auth-status", "logout") EXCEPT !.error = TRUE]>>
       ELSE <<>>

\* gemini-data error of start-session when it has no token
noTokenMessages(token) ==
  IF token = NULL THEN <<[IpcMsg("gemini-data", "error") EXCEPT !.error = TRUE]>> ELSE <<>>

\* A refresh fetch settles: the rest of refreshAccessToken runs, then its awaiting caller
RefreshSettled(c, resp) ==
  /\ c \in tm.inflight
  /\ LET t0 == [tm EXCEPT !.inflight = @ \ {c}]
         t1 == refreshSettled(t0, resp)
         token == refreshResult(t0, resp)
         got == [case |-> 2, token |-> token,
                 refreshes |-> 1 + (t1.refreshSeq - t0.refreshSeq), inside |-> FALSE]
         done == [Quiet EXCEPT !.refresh = [status |-> resp.status, kind |-> c.caller.kind,
                                            result |-> token]]
         msgs == refreshMessages(t1, resp)
     IN /\ Fits(t1)
        /\ tm' = t1
        /\ CASE c.caller.kind = "start" ->
                  LET s1 == startSessionResume(sess, token, mainWindow)
                  IN /\ Len(s1.agents) <= MaxAgents
                     /\ sess' = [s1 EXCEPT !.stopped = @ \ {c.id}]
                     /\ ui' = send(ui, mainWindow, msgs \o noTokenMessages(token))
                     /\ last' = [done EXCEPT !.get = got]
             [] c.caller.kind = "factcheck" ->
                  /\ sess' = IF token # NULL
                             THEN [sess EXCEPT !.factChecks = @ \cup
                                     {[claim |-> c.caller.ref, title |-> sess.titles[c.caller.ref],
                                       token |-> token]}]
                             ELSE sess
                  /\ ui' = send(ui, mainWindow, msgs)
                  /\ last' = [done EXCEPT !.get = got]
             [] OTHER ->
                  /\ sess' = sess
                  /\ ui' = send(ui, mainWindow, msgs)
                  /\ last' = done
  /\ UNCHANGED <<now, oauth, mainWindow, pool>>
  /\ Len(ui'.inbox) <= MaxInbox

\* ipcMain.on('start-oauth')
StartOAuthOn(u) ==
  /\ Len(oauth.servers) < MaxListeners
  /\ oauth' = startOAuthFlow(oauth)
  /\ ui' = u
  /\ last' = Quiet
  /\ UNCHANGED <<now, tm, sess, mainWindow, pool>>

\* The listener l receives a request: the createServer handler up to its suspension
OAuthRequest(l, req) ==
  /\ l \in 1..Len(oauth.servers)
  /\ oauth.servers[l].state = "open"
  /\ oauth.servers[l].handled < MaxRequests
  /\ LET r == handleCallback(oauth, l, req)
     IN /\ oauth' = r.o
        /\ last' = [Quiet EXCEPT !.request =
                      [server |-> l, outcome |-> r.outcome,
                       expected |-> oauth.oauthState, returned |-> req.state]]
  /\ UNCHANGED <<now, tm, sess, mainWindow, ui, pool>>

\* exchangeCodeForToken settles: the rest of the createServer handler runs
ExchangeSettled(h, tokenData) ==
  /\ h \in oauth.exchanges
  /\ LET stored == tokenData # NoTokenData /\ mainWindow
         t1 == IF stored THEN storeTokens(tm, tokenData) ELSE tm
     IN /\ Fits(t1)
        /\ tm' = t1
        /\ ui' = IF stored THEN send(ui, mainWindow, <<IpcMsg("auth-status", "oauth")>>)
                 ELSE ui
        /\ last' = [Quiet EXCEPT !.exchange =
                      [settled |-> TRUE, succeeded |-> tokenData # NoTokenData,
                       stored |-> stored, notified |-> stored,
                       page |-> callbackPage(FALSE)]]
  /\ oauth' = closeServer([oauth EXCEPT !.exchanges = @ \ {h}])
  /\ UNCHANGED <<now, sess, mainWindow, pool>>
  /\ Len(ui'.inbox) <= MaxInbox

\* The start-session handlers suspended in `await tokenManager.getValidToken()`
PendingStarts(t) == {c.id : c \in {x \in t.inflight : x.caller.kind = "start"}}

\* ipcMain.on('start-session')
StartSessionOn(u) ==
  LET s0 == disconnectCurrent(sess)
      g == getValidToken(tm, Caller("start", 0))
  IN /\ Fits(g.t)
     /\ tm' = g.t
     /\ IF g.pending
        THEN sess' = s0 /\ ui' = u /\ last' = Quiet
        ELSE LET s1 == startSessionResume(s0, g.token, mainWindow)
             IN /\ Len(s1.agents) <= MaxAgents
                /\ sess' = s1
                /\ ui' = send(u, mainWindow, noTokenMessages(g.token))
                /\ last' = [Quiet EXCEPT !.get = GetOutcome(tm, g)]
     /\ UNCHANGED <<now, oauth, mainWindow, pool>>
     /\ Len(ui'.inbox) <= MaxInbox

\* ipcMain.on('stop-session')
StopSessionOn(u) ==
  /\ sess' = [disconnectCurrent(sess) EXCEPT !.stopped = @ \cup PendingStarts(tm)]
  /\ ui' = IF sess.listeningAgent # NULL
           THEN send(u, mainWindow, <<IpcMsg("gemini-data", "stopped")>>) ELSE u
  /\ last' = Quiet
  /\ UNCHANGED <<now, tm, oauth, mainWindow, pool>>
  /\ Len(ui'.inbox) <= MaxInbox

\* ipcMain.on('audio-chunk')
AudioChunk ==
  /\ sess.audioSeq < MaxAudio
  /\ LET n == sess.audioSeq + 1
         sent == sess.listeningAgent # NULL /\ sendAudio(sess.agents[sess.listeningAgent])
     IN /\ sess' = [sess EXCEPT !.audioSeq = n,
                                !.audioSent = IF sent THEN @ \cup {n} ELSE @]
        /\ last' = [Quiet EXCEPT !.audio = [chunk |-> n, state |-> readyState(sess),
                                            transmitted |-> sent]]
  /\ UNCHANGED <<now, tm, oauth, mainWindow, ui, pool>>

\* The IPC message arrives from a renderer the specification does not follow
StartOAuth == StartOAuthOn(ui)
StartSession == StartSessionOn(ui)
StopSession == sess.listeningAgent # NULL /\ StopSessionOn(ui)

\* The IPC message at the head of the renderer's outbound queue is dispatched
IpcStartOAuth ==
  /\ ui.toMain # <<>> /\ Head(ui.toMain) = "start-oauth"
  /\ StartOAuthOn([ui EXCEPT !.toMain = Tail(@)])

IpcStartSession ==
  /\ ui.toMain # <<>> /\ Head(ui.toMain) = "start-session"
  /\ StartSessionOn([ui EXCEPT !.toMain = Tail(@)])

IpcStopSession ==
  /\ ui.toMain # <<>> /\ Head(ui.toMain) = "stop-session"
  /\ StopSessionOn([ui EXCEPT !.toMain = Tail(@)])

\* An agent event the session handlers forward and notifyRenderer repeats
Twice(type) == <<IpcMsg("gemini-data", type), IpcMsg("gemini-data", type)>>

\* ws.on('open'): sendSetupMessage, which also emits 'setup_complete'
WsOpen(a) ==
  /\ a \in 1..Len(sess.agents)
  /\ sess.agents[a].ws = "connecting"
  /\ sess' = [sess EXCEPT !.agents[a] = sendSetupMessage([@ EXCEPT !.ws = "open"])]
  /\ ui' = send(ui, mainWindow, Twice("setup_complete"))
  /\ last' = Quiet
  /\ UNCHANGED <<now, tm, oauth, mainWindow, pool>>
  /\ Len(ui'.inbox) <= MaxInbox

\* ws.on('message')
WsMessage(a, msg) ==
  /\ a \in 1..Len(sess.agents)
  /\ sess.agents[a].ws \in {"open", "closing"}
  /\ sess.agents[a].setupSent
  /\ LET w == handleServerMessage(
                [tm |-> tm, sess |-> sess, acks |-> <<>>, events |-> <<>>, get |-> NoGet,
                 sent |-> <<>>],
                a, msg)
     IN /\ Fits(w.tm)
        /\ w.sess.claimSeq <= MaxClaims
        /\ tm' = w.tm
        /\ sess' = w.sess
        /\ ui' = send(ui, mainWindow, w.sent)
        /\ last' = [Quiet EXCEPT
                      !.get = w.get,
                      !.msg = [agent |-> a, kind |-> msg.kind,
                               open |-> sess.agents[a].ws = "open", calls |-> msg.calls,
                               acks |-> w.acks, events |-> w.events]]
  /\ UNCHANGED <<now, oauth, mainWindow, pool>>
  /\ Len(ui'.inbox) <= MaxInbox

\* ws.on('error'): the socket fails and starts closing
WsError(a) ==
  /\ a \in 1..Len(sess.agents)
  /\ Live(sess.agents[a])
  /\ sess' = [sess EXCEPT !.agents[a].ws = "closing"]
  /\ ui' = send(ui, mainWindow, Twice("error"))
  /\ last' = Quiet
  /\ UNCHANGED <<now, tm, oauth, mainWindow, pool>>
  /\ Len(ui'.inbox) <= MaxInbox

\* Mutant: the 'close' observer leaves the reference to the agent in place
onCloseKeepRef(s, a) == [s EXCEPT !.agents[a].ws = "closed"]

\* The socket of agent a has closed; listeningAgent.on('close') sets listeningAgent = null
onClose(s, a) == [s EXCEPT !.agents[a].ws = "closed", !.listeningAgent = NULL]

\* { type: 'closed', data: { code, reason } }, once from the observer and once
\* from notifyRenderer
closedMessages(code) ==
  LET m == [IpcMsg("gemini-data", "closed") EXCEPT !.code = code] IN <<m, m>>

\* ws.on('close', (code, reason)): the socket closes with a code and a reason
WsCloseWith(a, code) ==
  /\ a \in 1..Len(sess.agents)
  /\ sess.agents[a].ws \in {"connecting", "open", "closing"}
  /\ sess' = onClose(sess, a)
  /\ ui' = send(ui, mainWindow, closedMessages(code))
  /\ last' = [Quiet EXCEPT !.closed =
                [agent |-> a, code |-> code,
                 sent |-> IF mainWindow THEN closedMessages(code) ELSE <<>>]]
  /\ UNCHANGED <<now, tm, oauth, mainWindow, pool>>
  /\ Len(ui'.inbox) <= MaxInbox

\* A close whose code and reason the specification does not follow
WsClose(a) == WsCloseWith(a, AbnormalClosure)

\* runFactCheck settles and its result (or error) is sent to the renderer
FactCheckSettled(f, answer) ==
  /\ f \in sess.factChecks
  /\ sess' = [sess EXCEPT !.factChecks = @ \ {f}]
  /\ LET r == runFactCheck(answer)
         candidates == factCheckCandidates(answer)
     IN /\ ui' = send(ui, mainWindow,
                      <<[IpcMsg("fact-check-result", "result") EXCEPT
                           !.title = f.title, !.claim = f.claim,
                           !.error = r.threw, !.result = r.result]>>)
        /\ last' = [Quiet EXCEPT !.fact =
                      [claim |-> f.claim, net |-> answer.net, threw |-> r.threw,
                       malformed |-> answer.net = "ok" /\ answer.text.json.kind = "invalid",
                       candidates |-> candidates,
                       resolved |-> resolveAll(candidates),
                       result |-> r.result]]
  /\ UNCHANGED <<now, tm, oauth, mainWindow, pool>>
  /\ Len(ui'.inbox) <= MaxInbox

----------------------------------------------------------------------------
\* Actions of the renderer

\* React mounts AppContent and its effects register the IPC listeners
UiMount ==
  /\ ~ui.mounted
  /\ ui' = [ui EXCEPT !.mounted = TRUE]
  /\ last' = Quiet
  /\ UNCHANGED <<now, tm, oauth, sess, mainWindow, pool>>

\* A handler of the renderer that touches nothing outside it
UiStep(u) ==
  /\ ui.mounted
  /\ ui' = u
  /\ last' = Quiet
  /\ UNCHANGED <<now, tm, oauth, sess, mainWindow, pool>>

\* ApiKeyModal onSave with a non-empty key
UiApiKeySubmit == ui.mounted /\ UiStep(handleApiKeySubmit(ui))

\* ApiKeyModal onDelete; the button exists while a key is stored
UiApiKeyDelete == ui.hasApiKey /\ UiStep(onDelete(ui))

\* Sidebar onLogout; the entry exists while an OAuth login is known
UiLogout == ui.hasOAuthLogin /\ UiStep(onLogout(ui))

\* Sidebar onToggleAuthMode; the switch is enabled while the other mode is available
UiToggleAuthMode ==
  /\ \/ ui.authMode = "apiKey" /\ ui.hasOAuthLogin
     \/ ui.authMode = "oauth" /\ ui.hasApiKey
  /\ Len(ui.toMain) < MaxOutbox
  /\ UiStep(toggleAuthMode(ui))

\* Sidebar onLogin: handleOAuthLogin
UiOAuthLogin ==
  /\ Len(ui.toMain) < MaxOutbox
  /\ UiStep(sendToMain(ui, "start-oauth"))

\* The listen button
UiListenClick ==
  /\ Len(ui.toMain) < MaxOutbox
  /\ Len(handleListenClick(ui).lives) <= MaxLives
  /\ UiStep(handleListenClick(ui))

\* connectToLiveSession resolves: onopen runs and connectLiveSession resumes
LiveConnected(l) ==
  /\ l \in 1..Len(ui.lives)
  /\ ui.lives[l] = "connecting"
  /\ UiStep([ui EXCEPT !.lives[l] = "open", !.liveSessionRef = l])

\* connectToLiveSession rejects: the catch block of connectLiveSession
LiveConnectFailed(l) ==
  /\ l \in 1..Len(ui.lives)
  /\ ui.lives[l] = "connecting"
  /\ UiStep([closeLive([ui EXCEPT !.lives[l] = "closed"]) EXCEPT !.isListening = FALSE])

\* onerror of live session l: the socket fails and starts closing
LiveError(l) ==
  /\ l \in 1..Len(ui.lives)
  /\ ui.lives[l] = "open"
  /\ UiStep([closeLive([ui EXCEPT !.lives[l] = "closing"]) EXCEPT !.isListening = FALSE])

\* onclose of live session l
LiveClose(l) ==
  /\ l \in 1..Len(ui.lives)
  /\ ui.lives[l] \in {"open", "closing"}
  /\ UiStep([ui EXCEPT !.lives[l] = "closed", !.liveSessionRef = NULL])

\* onmessage of live session l with a toolCall frame
LiveMessage(l, calls) ==
  /\ l \in 1..Len(ui.lives)
  /\ ui.lives[l] \in {"open", "closing"}
  /\ ui.mounted
  /\ LET w == liveOnMessage([u |-> ui, report |-> NoVerify], calls)
     IN /\ w.u.cardSeq <= MaxCards
        /\ w.u.verifySeq <= MaxVerifies
        /\ ui' = w.u
        /\ last' = [Quiet EXCEPT !.verify = w.report]
  /\ UNCHANGED <<now, tm, oauth, sess, mainWindow, pool>>

\* generateContent settles for the verifyClaimWithSearch call v
VerifySettled(v, answer) ==
  /\ v \in ui.verifies
  /\ LET r == verifySettled([ui EXCEPT !.verifies = @ \ {v}], v, answer)
     IN /\ ui' = r.u
        /\ last' = [Quiet EXCEPT !.verify = r.report]
  /\ UNCHANGED <<now, tm, oauth, sess, mainWindow, pool>>

\* The message at the head of the renderer's inbound queue reaches its listener
RendererDeliver ==
  /\ ui.inbox # <<>>
  /\ LET u == dispatch([ui EXCEPT !.inbox = Tail(@)], Head(ui.inbox))
     IN u.cardSeq <= MaxCards /\ ui' = u
  /\ last' = [Quiet EXCEPT !.delivered = Head(ui.inbox)]
  /\ UNCHANGED <<now, tm, oauth, sess, mainWindow, pool>>

----------------------------------------------------------------------------
\* Actions of the key-pool service

\* The module's top-level code runs with n keys in the environment
LoadKeys(n) ==
  /\ ~pool.loaded
  /\ pool' = [pool EXCEPT !.loaded = TRUE, !.keys = n]
  /\ last' = Quiet
  /\ UNCHANGED <<now, tm, oauth, sess, mainWindow, ui>>

\* A caller starts verifyClaimWithSearch
PoolVerifyStart ==
  /\ pool.loaded
  /\ pool.callSeq < MaxPoolCalls
  /\ LET r == poolVerify(pool)
     IN pool' = r.p /\ last' = [Quiet EXCEPT !.pool = r.report]
  /\ UNCHANGED <<now, tm, oauth, sess, mainWindow, ui>>

\* generateContent settles for the call c
PoolSettled(c, answer) ==
  /\ c \in pool.calls
  /\ LET r == poolSettled([pool EXCEPT !.calls = @ \ {c}], c, answer)
     IN /\ pool' = r.p
        /\ last' = [Quiet EXCEPT !.pool = [r.report EXCEPT !.settled = c.id,
                                                           !.net = answer.net]]
  /\ UNCHANGED <<now, tm, oauth, sess, mainWindow, ui>>

\* Inputs of the renderer's actions
LiveCalls ==
  { <<Call("detect_claim", 1, "A", TRUE)>>,
    <<Call("detect_claim", 1, "A", TRUE), Call("detect_claim", 2, "A", TRUE)>>,
    <<Call("other", 1, "A", TRUE), Call("detect_claim", 2, "", TRUE)>> }

VerifyGrounding ==
  { <<>>,
    <<Source("bbc.com", Vertex(1), Empty), Source("bbc.com", Vertex(1), Empty)>>,
    <<Source("", Bbc, Empty), Source("cnn.com", Cnn, Empty)>>,
    [i \in 1..6 |-> Source("bbc.com", IF i = 6 THEN Cnn ELSE Bbc, Empty)] }

VerifyAnswers ==
  {Answer("throw", NoText, <<>>)}
    \cup {Answer("ok", t, <<>>) : t \in Texts}
    \cup {Answer("ok", t, g) : t \in {Text("True", 4, TRUE, NoJson),
                                       Text("", UNDEFINED, FALSE, Obj("Mixed", 3, <<>>))},
                               g \in VerifyGrounding}

\* Frames whose calls carry different, equal and missing titles
ClaimFrames ==
  {[kind |-> "toolCall", calls |-> cs] :
     cs \in { <<Call("detect_claim", 1, "A", TRUE)>>,
              <<Call("detect_claim", 1, "B", TRUE)>>,
              <<Call("detect_claim", 1, "", TRUE)>>,
              <<Call("detect_claim", 1, "A", FALSE)>> }}

Next ==
  \/ \E d \in TickSteps : Tick(d)
  \/ \E tmr \in tm.armed : TimerFire(tmr)
  \/ \E c \in tm.inflight : \E resp \in RefreshResponses(tm) : RefreshSettled(c, resp)
  \/ StartOAuth
  \/ \E l \in 1..Len(oauth.servers) : \E req \in CallbackRequests(oauth) : OAuthRequest(l, req)
  \/ \E h \in oauth.exchanges : \E d \in TokenResponses(tm) \cup {NoTokenData} :
        ExchangeSettled(h, d)
  \/ StartSession
  \/ StopSession
  \/ IpcStartOAuth
  \/ IpcStartSession
  \/ IpcStopSession
  \/ \E a \in 1..Len(sess.agents) : WsOpen(a)
  \/ \E a \in 1..Len(sess.agents) : \E msg \in ServerFrames \cup ClaimFrames : WsMessage(a, msg)
  \/ \E a \in 1..Len(sess.agents) : WsError(a)
  \/ \E a \in 1..Len(sess.agents) : WsClose(a)
  \/ \E f \in sess.factChecks : \E answer \in RestAnswers : FactCheckSettled(f, answer)
  \/ UiMount
  \/ UiApiKeySubmit
  \/ UiApiKeyDelete
  \/ UiLogout
  \/ UiToggleAuthMode
  \/ UiOAuthLogin
  \/ UiListenClick
  \/ \E l \in 1..Len(ui.lives) : LiveConnected(l)
  \/ \E l \in 1..Len(ui.lives) : LiveConnectFailed(l)
  \/ \E l \in 1..Len(ui.lives) : LiveError(l)
  \/ \E l \in 1..Len(ui.lives) : LiveClose(l)
  \/ \E l \in 1..Len(ui.lives) : \E calls \in LiveCalls : LiveMessage(l, calls)
  \/ \E v \in ui.verifies : \E answer \in VerifyAnswers : VerifySettled(v, answer)
  \/ RendererDeliver
  \/ \E n \in 0..MaxKeys : LoadKeys(n)
  \/ PoolVerifyStart
  \/ \E c \in pool.calls : \E answer \in PoolAnswers : PoolSettled(c, answer)
  \/ AudioChunk

Spec == Init /\ [][Next]_vars

----------------------------------------------------------------------------
\* Sub-systems.  Each specification keeps every variable and runs the actions of
\* one component together with the actions through which the rest of the
\* program reaches it.

\* The callback the identity provider sends after consent
ConsentRequests(o) ==
  {[path |-> "/", state |-> o.oauthState, error |-> FALSE, code |-> TRUE]}

\* Frames of the connection's life cycle, without tool calls
SetupFrames == {f \in ServerFrames : f.kind # "toolCall"}

\* TokenManager: clock, timer, refresh fetches, one OAuth login that stores a
\* pair, and start-session as the caller of getValidToken.
NextToken ==
  \/ \E d \in TickSteps : Tick(d)
  \/ \E tmr \in tm.armed : TimerFire(tmr)
  \/ \E c \in tm.inflight : \E resp \in RefreshResponses(tm) : RefreshSettled(c, resp)
  \/ (oauth.servers = <<>> /\ StartOAuth)
  \/ \E l \in 1..Len(oauth.servers) : \E req \in ConsentRequests(oauth) :
        (oauth.servers[l].handled = 0 /\ OAuthRequest(l, req))
  \/ \E h \in oauth.exchanges : \E d \in TokenResponses(tm) \cup {NoTokenData} :
        ExchangeSettled(h, d)
  \/ StartSession

SpecToken == Init /\ [][NextToken]_vars

\* The application starts on any disk
InitStartup ==
  \E d \in Disks :
    /\ now = 0
    /\ tm = constructor(d).t
    /\ oauth = OAuthNew
    /\ sess = SessNew
    /\ mainWindow = TRUE
    /\ ui = UiNew
    /\ pool = PoolNew
    /\ last = [Quiet EXCEPT !.startup = [disk |-> d, outcome |-> constructor(d).outcome]]

SpecStartup == InitStartup /\ [][NextToken]_vars

\* Authorization flow: every callback request, and the token exchange.
NextOAuth ==
  \/ StartOAuth
  \/ \E l \in 1..Len(oauth.servers) : \E req \in CallbackRequests(oauth) : OAuthRequest(l, req)
  \/ \E h \in oauth.exchanges : \E d \in TokenResponses(tm) \cup {NoTokenData} :
        ExchangeSettled(h, d)
  \/ \E c \in tm.inflight : \E resp \in RefreshResponses(tm) : RefreshSettled(c, resp)

SpecOAuth == Init /\ [][NextOAuth]_vars

\* Live session life cycle: the session handlers, the socket events, and the
\* token refreshes a start-session may wait for.
NextSession ==
  \/ \E d \in TickSteps : Tick(d)
  \/ \E c \in tm.inflight : \E resp \in RefreshResponses(tm) : RefreshSettled(c, resp)
  \/ StartSession
  \/ StopSession
  \/ \E a \in 1..Len(sess.agents) : WsOpen(a)
  \/ \E a \in 1..Len(sess.agents) : \E msg \in SetupFrames : WsMessage(a, msg)
  \/ \E a \in 1..Len(sess.agents) : WsError(a)
  \/ \E a \in 1..Len(sess.agents) : WsClose(a)

SpecSession == Init /\ [][NextSession]_vars

\* Start and stop requests in any order: stop-session is handled whether or
\* not an agent is referenced.
NextStop ==
  \/ \E d \in TickSteps : Tick(d)
  \/ \E c \in tm.inflight : \E resp \in RefreshResponses(tm) : RefreshSettled(c, resp)
  \/ StartSession
  \/ StopSessionOn(ui)
  \/ \E a \in 1..Len(sess.agents) : WsOpen(a)
  \/ \E a \in 1..Len(sess.agents) : WsClose(a)

SpecStop == Init /\ [][NextStop]_vars

\* What a fact check of the inbound-frame runs is answered
FrameAnswers ==
  {Answer("throw", NoText, <<>>), Answer("ok", Text("", UNDEFINED, FALSE, Obj("Mixed", 3, <<>>)), <<>>)}

\* Inbound frames: every frame shape on every connection state, the claim
\* observers and their fact checks.  The clock stands still, so a stored token
\* does not expire while frames arrive.
NextFrames ==
  \/ \E c \in tm.inflight : \E resp \in RefreshResponses(tm) : RefreshSettled(c, resp)
  \/ StartSession
  \/ StopSession
  \/ \E a \in 1..Len(sess.agents) : WsOpen(a)
  \/ \E a \in 1..Len(sess.agents) : \E msg \in ServerFrames : WsMessage(a, msg)
  \/ \E a \in 1..Len(sess.agents) : WsError(a)
  \/ \E a \in 1..Len(sess.agents) : WsClose(a)
  \/ \E f \in sess.factChecks : \E answer \in FrameAnswers : FactCheckSettled(f, answer)

SpecFrames == Init /\ [][NextFrames]_vars


\* Fact-check pipeline of the main process: a session, frames that carry one
\* claim, and every answer of the generateContent endpoint.
NextFactCheck ==
  \/ \E c \in tm.inflight : \E resp \in RefreshResponses(tm) : RefreshSettled(c, resp)
  \/ (sess.agents = <<>> /\ StartSession)
  \/ \E a \in 1..Len(sess.agents) : WsOpen(a)
  \/ \E a \in 1..Len(sess.agents) : \E msg \in ClaimFrames :
        (sess.claimSeq = 0 /\ WsMessage(a, msg))
  \/ \E f \in sess.factChecks : \E answer \in RestAnswers : FactCheckSettled(f, answer)

SpecFactCheck == Init /\ [][NextFactCheck]_vars

\* API-key path of the renderer: key entry and removal, the renderer's own
\* live session, the claims it detects and their verifications.
NextVerify ==
  \/ UiMount
  \/ UiApiKeySubmit
  \/ UiApiKeyDelete
  \/ UiListenClick
  \/ \E l \in 1..Len(ui.lives) : LiveConnected(l)
  \/ \E l \in 1..Len(ui.lives) : LiveConnectFailed(l)
  \/ \E l \in 1..Len(ui.lives) : LiveError(l)
  \/ \E l \in 1..Len(ui.lives) : LiveClose(l)
  \/ \E l \in 1..Len(ui.lives) : \E calls \in LiveCalls : LiveMessage(l, calls)
  \/ \E v \in ui.verifies : \E answer \in VerifyAnswers : VerifySettled(v, answer)

SpecVerify == Init /\ [][NextVerify]_vars

\* Key pool: the keys found at load time, concurrent verifications, every answer
NextPool ==
  \/ \E n \in 0..MaxKeys : LoadKeys(n)
  \/ PoolVerifyStart
  \/ \E c \in pool.calls : \E answer \in PoolAnswers : PoolSettled(c, answer)

SpecPool == Init /\ [][NextPool]_vars

\* The OAuth path end to end: the renderer logs in, listens, and the claims the
\* main process detects come back to its cards.  The clock stands still.
NextCards ==
  \/ UiMount
  \/ UiLogout
  \/ (Len(oauth.servers) + Len(ui.toMain) = 0 /\ UiOAuthLogin)
  \/ (ui.authMode = "oauth" /\ sess.agents = <<>> /\ UiListenClick)
  \/ RendererDeliver
  \/ IpcStartOAuth
  \/ IpcStartSession
  \/ \E l \in 1..Len(oauth.servers) : \E req \in ConsentRequests(oauth) :
        (oauth.servers[l].handled = 0 /\ OAuthRequest(l, req))
  \/ \E h \in oauth.exchanges : \E d \in TokenResponses(tm) : ExchangeSettled(h, d)
  \/ \E c \in tm.inflight : \E resp \in RefreshResponses(tm) : RefreshSettled(c, resp)
  \/ \E a \in 1..Len(sess.agents) : WsOpen(a)
  \/ \E a \in 1..Len(sess.agents) : \E msg \in ClaimFrames : WsMessage(a, msg)
  \/ \E f \in sess.factChecks : \E answer \in FrameAnswers : FactCheckSettled(f, answer)

\* First launch: no token file on disk
InitFresh == Init /\ tm = TokenManagerNew

SpecCards == InitFresh /\ [][NextCards]_vars

\* Audio chunks arriving in every state of the session
NextAudio ==
  \/ \E c \in tm.inflight : \E resp \in RefreshResponses(tm) : RefreshSettled(c, resp)
  \/ StartSession
  \/ StopSession
  \/ \E a \in 1..Len(sess.agents) : WsOpen(a)
  \/ \E a \in 1..Len(sess.agents) : WsError(a)
  \/ \E a \in 1..Len(sess.agents) : \E code \in CloseCodes : WsCloseWith(a, code)
  \/ AudioChunk

SpecAudio == Init /\ [][NextAudio]_vars

\* A frame with one claim
OneClaim == {[kind |-> "toolCall", calls |-> <<Call("detect_claim", 1, "A", TRUE)>>]}

\* Token responses whose access token outlives the run
LongLived(t) == {d \in TokenResponses(t) : d.expires_in * 1000 > REFRESH_BUFFER_MS}

\* Sessions of the OAuth path that end while a fact check runs: stopped by the
\* listen button, by the switch to the API key, or closed by the network.  The
\* clock stands still and the token of the login does not expire.
NextClose ==
  \/ UiMount
  \/ (~ui.hasApiKey /\ UiApiKeySubmit)
  \/ (Len(oauth.servers) + Len(ui.toMain) = 0 /\ UiOAuthLogin)
  \/ (ui.authMode = "oauth" /\ UiListenClick)
  \/ (ui.authMode = "oauth" /\ UiToggleAuthMode)
  \/ RendererDeliver
  \/ IpcStartOAuth
  \/ IpcStartSession
  \/ IpcStopSession
  \/ \E l \in 1..Len(oauth.servers) : \E req \in ConsentRequests(oauth) :
        (oauth.servers[l].handled = 0 /\ OAuthRequest(l, req))
  \/ \E h \in oauth.exchanges : \E d \in LongLived(tm) : ExchangeSettled(h, d)
  \/ \E a \in 1..Len(sess.agents) : WsOpen(a)
  \/ \E a \in 1..Len(sess.agents) : \E msg \in OneClaim : WsMessage(a, msg)
  \/ \E a \in 1..Len(sess.agents) : WsClose(a)
  \/ \E f \in sess.factChecks : \E answer \in FrameAnswers : FactCheckSettled(f, answer)

SpecClose == InitFresh /\ [][NextClose]_vars

\* The credential modes: the renderer with an API key, an OAuth login or both,
\* and the sessions of either mode.  No claim is detected; the clock stands still.
NextModes ==
  \/ UiMount
  \/ UiApiKeySubmit
  \/ UiApiKeyDelete
  \/ UiLogout
  \/ UiToggleAuthMode
  \/ (Len(oauth.servers) + Len(ui.toMain) = 0 /\ UiOAuthLogin)
  \/ (~ui.isListening /\ UiListenClick)
  \/ \E l \in 1..Len(ui.lives) : LiveConnected(l)
  \/ RendererDeliver
  \/ IpcStartOAuth
  \/ IpcStartSession
  \/ IpcStopSession
  \/ \E l \in 1..Len(oauth.servers) : \E req \in ConsentRequests(oauth) :
        (oauth.servers[l].handled = 0 /\ OAuthRequest(l, req))
  \/ \E h \in oauth.exchanges : \E d \in TokenResponses(tm) : ExchangeSettled(h, d)
  \/ \E c \in tm.inflight : \E resp \in RefreshResponses(tm) : RefreshSettled(c, resp)

SpecModes == InitFresh /\ [][NextModes]_vars

\* Both verification paths, one per run: the fact checks of the main process
\* while the renderer has not mounted, or the renderer's verifications while
\* the main process has not moved.
NextVerification ==
  \/ (~ui.mounted /\ NextFactCheck)
  \/ (tm \in {TokenManagerNew, TokenManagerLoaded} /\ sess = SessNew /\ NextVerify)

SpecVerification == Init /\ [][NextVerification]_vars

----------------------------------------------------------------------------
\* Claims

Agents == 1..Len(sess.agents)
Servers == 1..Len(oauth.servers)

LiveAgents == {a \in Agents : Live(sess.agents[a])}

\* C1: at most one ListeningAgent has a connection that is connecting or open.
C1_AtMostOneLiveSession == Cardinality(LiveAgents) <= 1

\* C2: a getValidToken call made while tokens are held either returns the
\* current access token, whose remaining lifetime is at least the margin, without
\* refreshing, or performs exactly one refresh attempt before it returns.
C2_ValidOrOneRefresh ==
  /\ last.get.case = 3 =>
        /\ last.get.token # NULL
        /\ ~last.get.inside
        /\ last.get.refreshes = 0
  /\ last.get.case = 2 => last.get.refreshes = 1

Cleared(t) ==
  /\ t.accessToken = NULL /\ t.refreshToken = NULL /\ t.expiresAt = NULL
  /\ t.refreshTimer = NoTimer /\ t.armed = {}
  /\ t.file = NULL

\* C3: a 400/401 refresh response leaves access token, refresh token, expiry,
\* timer and credential file cleared, and from then on they stay cleared (so
\* getValidToken returns null) until an authorization completes.
C3_RevocationIsTerminal ==
  /\ [](last.refresh.status \in {400, 401} => Cleared(tm))
  /\ [][(Cleared(tm) /\ oauth'.exchanges = oauth.exchanges) => Cleared(tm')]_vars

TokenFields(t) ==
  <<t.accessToken, t.refreshToken, t.expiresAt, t.refreshTimer, t.armed, t.file>>

Transient(r) == r.kind # "none" /\ r.status \notin {200, 400, 401}

\* C4: a refresh that fails with anything but 400/401 returns null and leaves
\* access token, refresh token, expiry, timer and credential file as they were.
C4_TransientFailureKeepsState ==
  [][Transient(last'.refresh) =>
       /\ last'.refresh.result = NULL
       /\ TokenFields(tm') = TokenFields(tm)]_vars

C4_Witness ==
  /\ Transient(last.refresh)
  /\ tm.accessToken # NULL /\ tm.refreshToken # NULL
  /\ tm.armed # {} /\ tm.file # NULL

\* C5: at most one refresh timer is armed, it is the one this.refreshTimer
\* holds and it belongs to the pair stored last; a timer that fires is the one
\* scheduled last, and it is not armed any more.
C5_SingleTimer ==
  /\ Cardinality(tm.armed) <= 1
  /\ \A t \in tm.armed : t = tm.refreshTimer /\ t.pair = tm.storeSeq
  /\ last.fired # NoTimer =>
        /\ last.fired = tm.refreshTimer
        /\ last.fired.pair = tm.storeSeq
        /\ last.fired \notin tm.armed

C5_Witness ==
  /\ tm.storeSeq >= 2
  /\ last.fired # NoTimer

\* C6: no listener handles a second request.
C6_OneRequestPerListener ==
  \A l \in Servers : oauth.servers[l].handled <= 1

\* The state generated for the authorization attempt that is current
CurrentState == generateState(Len(oauth.servers))

\* C7: a callback request whose state differs from the state generated for the
\* current attempt starts no token exchange and stores no tokens.
C7_StateMismatchAborts ==
  [][(last'.request.outcome # "none" /\ last'.request.returned # CurrentState) =>
       /\ last'.request.outcome \in {"notfound", "mismatch"}
       /\ oauth'.exchanges = oauth.exchanges
       /\ tm' = tm]_vars

C7_Witness ==
  /\ last.request.outcome = "mismatch"
  /\ last.request.returned \notin {NULL, CurrentState}
  /\ oauth.servers[last.request.server].state = "closed"

OpenServers == {l \in Servers : oauth.servers[l].state = "open"}

\* C8: at most one listener is open, it is the one of the newest attempt, and
\* the PKCE context held while it is open is the one generated for that attempt.
C8_SingleListener ==
  /\ Cardinality(OpenServers) <= 1
  /\ \A l \in OpenServers :
        /\ l = Len(oauth.servers) /\ l = oauth.oauthServer
        /\ oauth.oauthState = generateState(l)
        /\ oauth.codeVerifier = generateCodeVerifier(l)
        /\ oauth.codeChallenge = generateCodeChallenge(generateCodeVerifier(l))

C8_Witness ==
  /\ Len(oauth.servers) = 2
  /\ oauth.servers[1] = [state |-> "closed", handled |-> 0]
  /\ oauth.servers[2].state = "open"
  /\ oauth.oauthState = generateState(2)

\* The ids of the detect_claim calls of a frame, in call order
RECURSIVE DetectClaimIds(_)
DetectClaimIds(calls) ==
  IF calls = <<>> THEN <<>>
  ELSE IF Head(calls).name = "detect_claim"
       THEN <<Head(calls).id>> \o DetectClaimIds(Tail(calls))
       ELSE DetectClaimIds(Tail(calls))

\* C9: a toolCall frame received on an open connection yields one
\* claim_detected event and one acknowledgement per detect_claim call, carrying
\* the call ids in call order, and nothing for other calls.
C9_OneAckPerCall ==
  (last.msg.kind = "toolCall" /\ last.msg.open) =>
     /\ last.msg.acks = DetectClaimIds(last.msg.calls)
     /\ last.msg.events = DetectClaimIds(last.msg.calls)

C9_Witness ==
  /\ last.msg.kind = "toolCall" /\ last.msg.open
  /\ Len(last.msg.calls) = 3
  /\ last.msg.acks = <<2, 1>>

\* C10: a setup_complete event has been emitted only for a session whose
\* setupComplete frame has been received.
C10_SetupCompleteOnlyOnAck ==
  \A a \in Agents : sess.agents[a].setupEvents > 0 => sess.agents[a].gotSetupComplete

\* C11 (as stated): a verification never throws to its caller; it returns a
\* result for every upstream behaviour, Unverified with score 0 when the
\* upstream answers malformed JSON.
C11_VerifyNeverThrows ==
  /\ last.fact.claim # 0 =>
        /\ ~last.fact.threw
        /\ last.fact.malformed =>
              last.fact.result.verdict = "Unverified" /\ last.fact.result.score = 0
  /\ last.verify.call # 0 /\ last.verify.failures = last.verify.primary + last.verify.fallback =>
        last.verify.result.verdict = "Unverified" /\ last.verify.result.score = 0

\* C11 (amended): the renderer's verifyClaimWithSearch returns the degraded
\* Unverified result, score 0 and no sources, when every request it made failed;
\* runFactCheck of the main process rejects exactly when the request fails
\* (network error, non-2xx status, unreadable body), and returns Unverified
\* with score 0 when the answer text holds malformed JSON.
C11_ThrowsOnlyOnRequestFailure ==
  /\ last.fact.claim # 0 =>
        /\ last.fact.threw <=> last.fact.net # "ok"
        /\ last.fact.malformed =>
              last.fact.result.verdict = "Unverified" /\ last.fact.result.score = 0
  /\ last.verify.call # 0 /\ last.verify.failures = last.verify.primary + last.verify.fallback =>
        last.verify.result = Result("Unverified", 0, <<>>)

\* Every request of a renderer verification failed, the last with malformed JSON
C11_Witness ==
  /\ last.verify.call # 0
  /\ last.verify.failures = 4
  /\ last.verify.malformed >= 1

\* The requests of a verification, pending or returned
Requests(r) == r.primary + r.fallback

\* Fallback requests follow failures only, and stay within the retry bound
FallbackBounded(r) ==
  /\ r.fallback <= 3
  /\ Requests(r) <= 4
  /\ r.fallback > 0 => r.failures >= Requests(r) - 1

\* C12 (as stated): one verify call issues exactly one request to the primary
\* tier and, only if that fails or is unparseable, at most 3 requests to the
\* fallback tier; never more than 4 requests in all, and it returns after the
\* last attempt.
C12_OnePrimaryThreeFallback ==
  /\ \A v \in ui.verifies : v.primary = 1 /\ FallbackBounded(v) /\ v.attempt < 3
  /\ last.verify.call # 0 => last.verify.primary = 1 /\ FallbackBounded(last.verify)

\* C12, as far as it holds: one verify call issues at most one request to the
\* primary tier (exactly one when a client exists as the call begins, none when
\* the client has been cleared) and, only after a failure, at most 3 requests to
\* the fallback tier; never more than 4 requests in all, and no call waits for
\* an answer beyond its third fallback attempt.
C12_AtMostOnePrimaryThreeFallback ==
  /\ \A v \in ui.verifies :
        /\ v.primary = (IF v.client THEN 1 ELSE 0)
        /\ FallbackBounded(v)
        /\ v.attempt < 3
  /\ last.verify.call # 0 =>
        /\ last.verify.primary = (IF last.verify.client THEN 1 ELSE 0)
        /\ FallbackBounded(last.verify)

\* A call returned after one primary and three fallback requests, all failed
C12_Witness ==
  /\ last.verify.call # 0
  /\ last.verify.primary = 1 /\ last.verify.fallback = 3
  /\ last.verify.failures = 4

Verdicts == {"True", "False", "Mixed", "Unverified"}

WellFormed(result) == result.verdict \in Verdicts /\ result.score \in 0..5

\* C13: every result a verification returns has a verdict in {True, False,
\* Mixed, Unverified} and a score that is 0 or in 1..5, whatever the text of
\* the model's answer.
C13_ResultWellFormed ==
  /\ last.verify.call # 0 => WellFormed(last.verify.result)
  /\ last.fact.claim # 0 /\ ~last.fact.threw => WellFormed(last.fact.result)

\* A redirect wrapper: what processSources calls "a known redirect link"
isWrapper(u) == includes(u, "google.com/url") \/ isInternal(u)

NoDuplicates(sources) ==
  \A i, j \in 1..Len(sources) : i < j => sources[i].uri # sources[j].uri

SourcesClean(sources) ==
  /\ Len(sources) <= 5
  /\ NoDuplicates(sources)
  /\ \A i \in 1..Len(sources) : ~isWrapper(sources[i].uri)

\* C15: every source list handed over with a verification result has at most
\* 5 sources, no duplicates and no redirect-wrapper URI, on the OAuth path
\* (runFactCheck) and on the API-key path (verifyClaimWithSearch).
C15_SourcesCappedDistinctResolved ==
  /\ last.fact.claim # 0 /\ ~last.fact.threw => SourcesClean(last.fact.result.sources)
  /\ last.verify.call # 0 => SourcesClean(last.verify.result.sources)

\* The fact check that settled answered, and so went through processSources
Resolved == last.fact.claim # 0 /\ last.fact.net = "ok"

\* The sources processSources looked at, and what became of each
Considered == 1..Len(last.fact.resolved)

RECURSIVE Flatten(_)
Flatten(lists) == IF lists = <<>> THEN <<>> ELSE Head(lists) \o Flatten(Tail(lists))

\* Each source of the batch resolved on its own
OneByOne(candidates) ==
  Flatten([i \in 1..Len(Slice5(candidates)) |-> processSources(<<candidates[i]>>)])

\* C16 (as stated): a failure while resolving one source never fails the batch
\* and never removes that source: it is kept in the output, and the other
\* sources are resolved as they would be without it.
C16_FailedSourceKept ==
  Resolved =>
    /\ ~last.fact.threw
    /\ \A i \in Considered : last.fact.resolved[i].failed => last.fact.resolved[i].kept
    /\ last.fact.result.sources = OneByOne(last.fact.candidates)

\* C16 (amended): a failure while resolving one source never fails the batch,
\* and the other sources are resolved as they would be without it; the source
\* itself keeps the URI reached before the failure and is kept in the output
\* unless that URI still points at the grounding-redirect host, in which case
\* it is dropped.
C16_FailedSourceKeptUnlessInternal ==
  Resolved =>
    /\ ~last.fact.threw
    /\ \A i \in Considered :
          last.fact.resolved[i].failed =>
            (last.fact.resolved[i].kept <=> ~isInternal(last.fact.resolved[i].uri))
    /\ last.fact.result.sources = OneByOne(last.fact.candidates)

\* A batch whose first source failed to resolve and was kept, next to another
C16_Witness ==
  /\ Resolved
  /\ Len(last.fact.resolved) = 2
  /\ last.fact.resolved[1].failed /\ last.fact.resolved[1].kept
  /\ Len(last.fact.result.sources) = 2

\* C17: no source that source resolution returns has a URI containing
\* 'vertexaisearch' or 'grounding-api-redirect'; such sources are dropped.
C17_NoInternalSource ==
  Resolved =>
    /\ \A i \in 1..Len(last.fact.result.sources) :
          ~isInternal(last.fact.result.sources[i].uri)
    /\ \A i \in Considered :
          isInternal(last.fact.resolved[i].uri) => ~last.fact.resolved[i].kept

\* A source whose URI still pointed at the redirect host was dropped, another kept
C17_Witness ==
  /\ Resolved
  /\ \E i \in Considered : isInternal(last.fact.resolved[i].uri)
  /\ Len(last.fact.result.sources) = 1

\* The i-th candidate's URI and title as processSources reads them
CandidateUri(i) ==
  IF last.fact.candidates[i].uri # Empty THEN last.fact.candidates[i].uri
  ELSE last.fact.candidates[i].url

UsableTitle(title) == title # "" /\ title # "Quelle" /\ ~titleIncludesGoogle(title)

\* A google.com/url wrapper that parses and embeds a url= or q= parameter
EmbedsUrl(u) == u.host = "google.com" /\ u.path = "/url" /\ u.scheme /\ Params(u) # {}

\* The URL a wrapper embeds: the value of url=, or of q= when there is no url=
Embedded(u) == IF u.url # <<>> THEN u.url[1] ELSE u.q[1]

\* C18 (as stated): source resolution is idempotent; a non-redirect source with
\* a usable title is returned unchanged; a wrapper with an embedded url= or q=
\* parameter resolves to the embedded URL, its title set to that URL's
\* hostname, without a network call.
C18_Idempotent ==
  Resolved =>
    /\ processSources(AsRaw(last.fact.result.sources)) = last.fact.result.sources
    /\ \A i \in Considered :
          /\ ~isWrapper(CandidateUri(i)) /\ UsableTitle(last.fact.candidates[i].title) =>
                /\ last.fact.resolved[i].kept
                /\ last.fact.resolved[i].uri = CandidateUri(i)
                /\ last.fact.resolved[i].title = last.fact.candidates[i].title
          /\ EmbedsUrl(CandidateUri(i)) =>
                /\ last.fact.resolved[i].uri = Embedded(CandidateUri(i))
                /\ last.fact.resolved[i].title = domainOf(Embedded(CandidateUri(i)))
                /\ last.fact.resolved[i].heads = 0

\* C18 (amended): source resolution applied to an output that holds no wrapper
\* URI returns it unchanged (a wrapper nested in a wrapper is unwrapped one
\* level per application); a non-redirect source with a usable title is
\* returned unchanged; a wrapper with an embedded url= or q= parameter resolves
\* to the embedded URL (url= first) without a network call unless the embedded
\* URL is a grounding redirect, and its title becomes the hostname of the
\* resolved URL when the source's title is missing, generic or names google.com.
C18_IdempotentOnResolved ==
  Resolved =>
    /\ (\A k \in 1..Len(last.fact.result.sources) :
           ~isWrapper(last.fact.result.sources[k].uri)) =>
          processSources(AsRaw(last.fact.result.sources)) = last.fact.result.sources
    /\ \A i \in Considered :
          /\ ~isWrapper(CandidateUri(i)) /\ UsableTitle(last.fact.candidates[i].title) =>
                /\ last.fact.resolved[i].kept
                /\ last.fact.resolved[i].uri = CandidateUri(i)
                /\ last.fact.resolved[i].title = last.fact.candidates[i].title
          /\ EmbedsUrl(CandidateUri(i)) =>
                /\ ~isInternal(Embedded(CandidateUri(i))) =>
                      /\ last.fact.resolved[i].uri = Embedded(CandidateUri(i))
                      /\ last.fact.resolved[i].heads = 0
                /\ last.fact.resolved[i].title =
                      IF UsableTitle(last.fact.candidates[i].title)
                      THEN last.fact.candidates[i].title
                      ELSE domainOf(last.fact.resolved[i].uri)

\* https://google.com/url?url=https://www.cnn.com/a&q=https://bbc.com/x without
\* a title was resolved to {title: cnn.com, uri: https://www.cnn.com/a}
C18_Witness ==
  /\ Resolved
  /\ last.fact.candidates = <<Source("", Google(<<Cnn>>, <<Bbc>>), Empty)>>
  /\ last.fact.result.sources = <<[title |-> "cnn.com", uri |-> Cnn]>>

\* A returned call met errors only, a quota error on each of its keys
Exhausted(r) == r.call # 0 /\ r.attempts = pool.keys /\ r.quota = r.attempts /\ r.attempts > 0

\* No call, pending or returned, makes more attempts than there are keys; a
\* returned call met at most one error that was not a quota error, its last
AttemptsBounded ==
  /\ \A c \in pool.calls : Len(c.tried) <= pool.keys
  /\ last.pool.call # 0 =>
        /\ last.pool.attempts <= pool.keys
        /\ last.pool.attempts <= last.pool.quota + 1
        /\ last.pool.error \in {"throw", "parse"} => last.pool.result = Result("Unverified", 0, <<>>)

\* A quota error in a pool of two or more keys moves to the next key, rebuilds
\* the client with it, and the call issues its next request with that key
\* unless it has made as many attempts as there are keys
RotatesOnQuota ==
  last'.pool.net = "quota" /\ pool.keys >= 2 =>
    /\ pool'.currentKeyIndex = (pool.currentKeyIndex + 1) % pool.keys
    /\ pool'.ai = pool'.currentKeyIndex + 1
    /\ \A c \in pool.calls :
          c.id = last'.pool.settled /\ Len(c.tried) < pool.keys =>
            \E d \in pool'.calls :
              d.id = c.id /\ d.tried = Append(c.tried, pool'.currentKeyIndex + 1)

----------------------------------------------------------------------------
\* Credential mode and live sessions

\* C20: authMode changes only while no live session is connecting or open: a
\* step that changes it, by the toggle, a login, a key submit, a logout, a key
\* delete or a logged-out status, leaves no session of the renderer and no
\* agent of the main process connecting or open.
C20_ModeChangesWithoutSession ==
  [][ui'.authMode # ui.authMode
       => /\ \A l \in 1..Len(ui'.lives) : ui'.lives[l] \notin {"connecting", "open"}
          /\ \A a \in 1..Len(sess'.agents) : ~Live(sess'.agents[a])]_vars

----------------------------------------------------------------------------
\* Claim cards and their results

\* A verification of the detection c is under way or its result is on its way
\* to a renderer that listens for it
Awaited(c) ==
  \/ \E f \in sess.factChecks : f.claim = c
  \/ \E r \in tm.inflight : r.caller = Caller("factcheck", c)
  \/ \E v \in ui.verifies : v.claim = c
  \/ /\ ui.authMode = "oauth"
     /\ \E m \in 1..Len(ui.inbox) :
          ui.inbox[m].channel = "fact-check-result" /\ ui.inbox[m].claim = c

\* C14: every detected claim's card leaves Pending exactly once, with the
\* result of that claim's own verification, and does not change afterwards: a
\* card is written at most once, by the verification of the detection it was
\* created for, and while it is Pending that result is still to come.
C14_OneTerminalResultOfItsOwn ==
  \A i \in 1..Len(ui.cards) :
    /\ ui.cards[i].writes <= 1
    /\ ui.cards[i].writes = 1 => ui.cards[i].by = ui.cards[i].claim
    /\ ui.cards[i].isVerifying => Awaited(ui.cards[i].claim)

----------------------------------------------------------------------------
\* Credentials and the display layer

\* An auth-status payload carries a success flag and a type, nothing else
FlagAndType(m) ==
  m.title = "" /\ ~m.text /\ m.claim = 0 /\ m.result = NoResult /\ m.token = NULL

----------------------------------------------------------------------------
\* Token refresh and the connections that exist

\* C22: a refresh that completes leaves every agent that exists as it is, its
\* credential and its connection state included; an agent created by the
\* caller the refresh resumes is the only one to carry the refreshed token.
C22_RefreshLeavesConnections ==
  [][last'.refresh.kind # "none"
       => /\ Len(sess'.agents) >= Len(sess.agents)
          /\ \A a \in 1..Len(sess.agents) : sess'.agents[a] = sess.agents[a]
          /\ \A a \in (Len(sess.agents) + 1)..Len(sess'.agents) :
               /\ last'.refresh.status = 200
               /\ sess'.agents[a].accessToken = tm'.accessToken
               /\ sess'.agents[a].ws = "connecting"]_vars

\* A refresh has succeeded while a connection was open, which keeps the token
\* it was opened with
C22_Witness ==
  /\ last.refresh.status = 200
  /\ \E a \in 1..Len(sess.agents) :
       sess.agents[a].ws = "open" /\ sess.agents[a].accessToken # tm.accessToken

----------------------------------------------------------------------------
\* Fact checks that outlive their session

\* The card created for the detection c has its terminal result
Settled(c) ==
  \A i \in 1..Len(ui.cards) : ui.cards[i].claim = c => ~ui.cards[i].isVerifying

\* C23: closing a session does not cancel the fact check of an earlier claim:
\* a step that ends a session keeps the running fact checks, and a result that
\* reaches the renderer when no session is live is written to the claim's card.
C23_ResultDeliveredAfterClose ==
  /\ [](last.delivered.channel = "fact-check-result" /\ LiveAgents = {}
          => Settled(last.delivered.claim))
  /\ [][Cardinality(LiveAgents') < Cardinality(LiveAgents)
          => sess'.factChecks = sess.factChecks]_vars

----------------------------------------------------------------------------
\* Audio

\* C24: a chunk is transmitted exactly when the connection is open as it is
\* submitted; in any other state it is dropped, and no later step transmits
\* it: the transmitted chunks grow only by the chunk a step submits to an
\* open connection.
C24_AudioOnlyWhileOpen ==
  /\ [](last.audio.chunk # 0
          => /\ last.audio.transmitted <=> last.audio.state = "open"
             /\ last.audio.chunk \in sess.audioSent <=> last.audio.transmitted)
  /\ [][sess'.audioSent # sess.audioSent
          => /\ last'.audio.state = "open"
             /\ sess'.audioSent = sess.audioSent \cup {last'.audio.chunk}]_vars

\* A chunk went out on an open connection and a later one was dropped while
\* the next connection was not open yet
C24_Witness ==
  /\ last.audio.chunk # 0 /\ ~last.audio.transmitted
  /\ last.audio.state \in {"connecting", "closing"}
  /\ sess.audioSent # {}

----------------------------------------------------------------------------
\* Logout

\* C25: clearTokens, called in any state the TokenManager reaches, leaves the
\* tokens and the expiry null, no timer armed and no credential file, and a
\* second call changes nothing; the state after a refresh answered 400 or 401,
\* which calls it, is such a state.
C25_ClearTokensIdempotent ==
  /\ [](Cleared(clearTokens(tm)) /\ clearTokens(clearTokens(tm)) = clearTokens(tm))
  /\ [][last'.refresh.status \in {400, 401}
          => Cleared(tm') /\ clearTokens(tm') = tm']_vars

\* clearTokens has run on a TokenManager that had stored a token pair
C25_Witness ==
  /\ last.refresh.status \in {400, 401}
  /\ tm.storeSeq > 0
  /\ Cleared(tm)

----------------------------------------------------------------------------
\* Teardown

\* C26: disconnect closes the connection of an agent in any state and leaves
\* it not live and without socket; on an agent already disconnected it changes
\* nothing, and neither does stop-session when no agent is current.  The agent
\* that is current is never one whose connection has already closed.
C26_DisconnectIdempotent ==
  /\ sess.listeningAgent # NULL => sess.agents[sess.listeningAgent].ws # "closed"
  /\ \A a \in 1..Len(sess.agents) :
       LET d == disconnect(sess.agents[a])
       IN ~Live(d) /\ ~d.hasWs /\ disconnect(d) = d
  /\ LET s1 == disconnectCurrent(sess)
     IN /\ s1.listeningAgent = NULL
        /\ \A a \in 1..Len(s1.agents) : a = sess.listeningAgent \/ s1.agents[a] = sess.agents[a]
        /\ disconnectCurrent(s1) = s1

\* An agent was disconnected while its connection was open or opening, and
\* no agent is current
C26_Witness ==
  /\ sess.listeningAgent = NULL
  /\ \E a \in 1..Len(sess.agents) : ~sess.agents[a].hasWs /\ sess.agents[a].ws = "closing"

----------------------------------------------------------------------------
\* The refresh token

\* C27: the refresh token in memory and the one on disk change only when a
\* response that is stored supplies a new one, which then replaces both, or
\* when a refresh answered 400 or 401 clears them; a successful refresh whose
\* response omits refresh_token leaves both as they were.
C27_RefreshTokenRetained ==
  [][(tm'.refreshToken # tm.refreshToken \/ tm'.file # tm.file)
       => \/ /\ tm'.storeSeq = tm.storeSeq + 1
             /\ tm'.refreshToken = IssuedRefresh(tm)
             /\ tm'.file = IssuedRefresh(tm)
          \/ /\ last'.refresh.status \in {400, 401}
             /\ tm'.refreshToken = NULL
             /\ tm'.file = NULL]_vars

\* A refresh has succeeded without a new refresh token and the one held before
\* is still held and still on disk
C27_Witness ==
  /\ last.refresh.status = 200
  /\ tm.refreshToken # NULL
  /\ tm.refreshToken # 50 + tm.storeSeq
  /\ tm.file = tm.refreshToken

----------------------------------------------------------------------------
\* PKCE

\* The exchange the callback handled in this step has started
Started ==
  CHOOSE h \in oauth.exchanges :
    h.server = last.request.server /\ h.req = oauth.servers[h.server].handled

\* C28: the challenge held is the S256 challenge of the verifier held, and an
\* exchange sends the verifier of the attempt whose authorization URL carried
\* the state the callback returned, hence the verifier whose challenge that
\* URL carried.
C28_PkceRoundTrip ==
  /\ oauth.codeVerifier # NULL
       => oauth.codeChallenge = generateCodeChallenge(oauth.codeVerifier)
  /\ last.request.outcome = "exchange"
       => \E k \in 1..Len(oauth.servers) :
            /\ last.request.returned = generateState(k)
            /\ Started.verifier = generateCodeVerifier(k)

\* A second attempt's callback has started its exchange
C28_Witness ==
  /\ last.request.outcome = "exchange"
  /\ Len(oauth.servers) >= 2
  /\ Started.verifier = generateCodeVerifier(2)

----------------------------------------------------------------------------
\* The token exchange

\* C29: the result of the exchange is stored exactly when the exchange
\* succeeded, and a failed exchange stores nothing and is answered as a
\* failure, never as a successful login.
C29_ExchangeStoredOrReported ==
  last.exchange.settled
    => /\ last.exchange.stored <=> last.exchange.succeeded
       /\ ~last.exchange.succeeded
            => /\ ~last.exchange.notified
               /\ last.exchange.page # "Login Successful!"

----------------------------------------------------------------------------
\* Abnormal close

\* The session manager as its callers see it: the reference, the agents with
\* a live connection, and whether an audio chunk would be transmitted
View(s) ==
  <<s.listeningAgent, {a \in 1..Len(s.agents) : Live(s.agents[a])}, readyState(s) = "open">>

\* C30: a socket that closes leaves no agent current and audio dropped, as
\* stop-session does, and the closed events sent carry its code and reason;
\* when the socket is the current agent's, the session manager is left exactly
\* as an explicit disconnect in the same state would leave it.
C30_AbnormalCloseAsDisconnect ==
  /\ [](last.closed.agent # 0
          => /\ sess.listeningAgent = NULL
             /\ readyState(sess) = "none"
             /\ ~Live(sess.agents[last.closed.agent])
             /\ last.closed.sent # <<>>
             /\ \A m \in 1..Len(last.closed.sent) :
                  /\ last.closed.sent[m].type = "closed"
                  /\ last.closed.sent[m].code = last.closed.code)
  /\ [][(last'.closed.agent # 0 /\ sess.listeningAgent = last'.closed.agent)
          => View(sess') = View(disconnectCurrent(sess))]_vars

\* The current agent's open connection was closed by the server with an error code
C30_Witness ==
  /\ last.closed.agent # 0
  /\ last.closed.code = 1011
  /\ sess.agents[last.closed.agent].hasWs
  /\ sess.agents[last.closed.agent].setupSent
  /\ sess.audioSent # {}

----------------------------------------------------------------------------
\* Startup

Decrypts(d) == d.file \notin {NULL, Corrupt} /\ d.readable /\ d.encryption
LoadFails(d) == d.file # NULL /\ d.encryption /\ (~d.readable \/ d.file = Corrupt)

\* C31: the constructor never throws; a persisted token that decrypts is
\* adopted and its refresh request is issued at once; when reading or
\* decrypting fails the file is deleted and no refresh token is adopted.
C31_StartupLoadsOrDeletes ==
  last.startup.outcome # "none"
    => /\ last.startup.outcome # "throws"
       /\ Decrypts(last.startup.disk)
            => /\ tm.refreshToken = last.startup.disk.file
               /\ \E c \in tm.inflight :
                    c.caller.kind = "startup" /\ c.rt = last.startup.disk.file
       /\ LoadFails(last.startup.disk)
            => /\ tm.file = NULL
               /\ tm.refreshToken = NULL
               /\ tm.inflight = {}

\* The constructor found a file that does not decrypt
C31_Witness ==
  /\ last.startup.outcome = "caught"
  /\ last.startup.disk.file = Corrupt
  /\ tm.file = NULL

----------------------------------------------------------------------------
\* Logout and refreshes in flight

\* C32: a refresh request that completes after clearTokens has run (no refresh
\* token is held any more, and the request was issued with one) restores no
\* access token, arms no timer and writes no credential file.
C32_LogoutFinalForInflight ==
  [][(tm.refreshToken = NULL /\ last'.refresh.kind # "none")
       => /\ tm'.accessToken = tm.accessToken
          /\ tm'.armed = tm.armed
          /\ tm'.file = tm.file]_vars

----------------------------------------------------------------------------
\* Close events and the session reference

\* C33: the close event of an agent that is not the current one leaves the
\* reference alone, and every agent whose connection is connecting or open is
\* the one the main process references.
C33_LiveAgentReferenced ==
  /\ [](\A a \in Agents : Live(sess.agents[a]) => sess.listeningAgent = a)
  /\ [][(last'.closed.agent # 0 /\ sess.listeningAgent # last'.closed.agent)
          => sess'.listeningAgent = sess.listeningAgent]_vars

----------------------------------------------------------------------------
\* Stop during a pending start

\* C34: a start-session that resumes after a stop-session was handled during
\* its wait for the token opens no connection.
C34_StopWinsOverPendingStart ==
  [][\A c \in tm.inflight \ tm'.inflight :
        (c.caller.kind = "start" /\ c.id \in sess.stopped)
          => \A a \in (1..Len(sess'.agents)) \ (1..Len(sess.agents)) :
                ~Live(sess'.agents[a])]_vars

----------------------------------------------------------------------------
\* Listening flag and live session of the renderer

\* C35: in API-key mode, when the listening flag is false and no
\* connectToLiveSession call is pending, no live session is stored or open.
C35_NotListeningNoLiveSession ==
  (/\ ui.authMode = "apiKey"
   /\ ~ui.isListening
   /\ \A l \in 1..Len(ui.lives) : ui.lives[l] # "connecting")
    => /\ ui.liveSessionRef = NULL
       /\ \A l \in 1..Len(ui.lives) : ui.lives[l] # "open"

----------------------------------------------------------------------------
\* Background refresh after a failure

\* A refresh token is held, no refresh request is in flight, no timer is armed
Unattended(t) == t.refreshToken # NULL /\ t.inflight = {} /\ t.armed = {}

\* C36: whenever a refresh token is held and no refresh request is in flight a
\* refresh timer is armed; in particular after the network or 5xx failure of
\* a refresh the timer started.
C36_BackgroundRefreshStaysAlive ==
  /\ [](~Unattended(tm))
  /\ [][(last'.refresh.kind = "timer" /\ last'.refresh.status \in {0, 500})
          => ~Unattended(tm')]_vars

----------------------------------------------------------------------------
\* The store / schedule / immediate-refresh cycle

\* C37: the cycle ends: when the refresh that scheduleRefresh issued at once
\* (the stored pair was already inside the margin) is answered with a pair,
\* storing that pair issues no further immediate refresh.
C37_ImmediateRefreshCycleEnds ==
  [][(last'.refresh.kind = "immediate" /\ last'.refresh.status = 200)
       => \A c \in tm'.inflight \ tm.inflight : c.caller.kind # "immediate"]_vars

----------------------------------------------------------------------------
\* Results and cards of claims with the same title

\* C38: a fact-check result is written only to the card of the claim it was
\* computed for, and a result dispatched to the renderer while its claim's
\* card is on display is written to that card.
C38_ResultToItsOwnCard ==
  /\ \A i \in 1..Len(ui.cards) :
        ui.cards[i].writes > 0 => ui.cards[i].by = ui.cards[i].claim
  /\ (last.delivered.channel = "fact-check-result" /\ ui.authMode = "oauth")
        => \A i \in 1..Len(ui.cards) :
             ui.cards[i].claim = last.delivered.claim => ui.cards[i].by = last.delivered.claim

----------------------------------------------------------------------------
\* Keys tried by one verify call

\* No key occurs twice and each key is the pool's successor of the one before
InPoolOrder(tried) ==
  /\ \A i, j \in 1..Len(tried) : i # j => tried[i] # tried[j]
  /\ \A i \in 1..(Len(tried) - 1) : tried[i + 1] = (tried[i] % pool.keys) + 1

\* C39: within one verify call no key is tried twice and the keys are tried
\* in pool order, whatever other verify calls do to the shared index.
C39_KeysOnceInPoolOrder ==
  /\ \A c \in pool.calls : InPoolOrder(c.tried)
  /\ last.pool.call # 0 => InPoolOrder(last.pool.tried)

----------------------------------------------------------------------------
\* Handlers of a superseded authorization attempt

\* The callback handler whose exchange settles in the step closes no listener
\* but its own
ClosesOwnListenerOnly ==
  \A h \in oauth.exchanges \ oauth'.exchanges :
    \A l \in 1..Len(oauth.servers) :
      (oauth.servers[l].state = "open" /\ oauth'.servers[l].state = "closed") => l = h.server

\* C40: a callback handler awaiting its token exchange closes only its own
\* listener, uses its own listener's port as redirect_uri and sends its own
\* attempt's verifier; no verifier is sent to the token endpoint twice.
C40_SupersededHandlerIsolated ==
  /\ [](\A h \in oauth.exchanges :
          /\ h.port = h.server
          /\ h.verifier = generateCodeVerifier(h.server)
          /\ \A g \in oauth.exchanges : g # h => g.verifier # h.verifier)
  /\ [][ClosesOwnListenerOnly]_vars

====
